---------------------------- MODULE Spec2Model ----------------------------
(***************************************************************************)
(* Delta assistant backend (src/delta.py): the command router              *)
(* process_command, the memory store, and the restricted expression        *)
(* evaluator _safe_eval/_eval_node.                                        *)
(*                                                                         *)
(* Text is modelled at character level: a Python str is a sequence of      *)
(* one-character strings, so that lower(), strip(), replace(), the `in`    *)
(* substring test, startswith() and the regular expressions are computed   *)
(* as the interpreter computes them.                                       *)
(***************************************************************************)
EXTENDS Integers, Sequences, FiniteSets, TLC

VARIABLES
    utterance, \* the string handed to process_command
    memory,    \* the module-level `memory` object (delta.py:74)
    storage,   \* the content of MEMORY_FILE on disk
    config,    \* the API keys read from the environment at import
    reply,     \* what the last process_command call did and returned
    hist,      \* history of the session: last name set, its save, restarts
    expr,      \* the expression tree handed to _eval_node
    result,    \* what the last _safe_eval call returned / raised
    voices,    \* the _tts threads started by speak, in order of start
    speak_lock, \* _speak_lock: the index of the _tts thread holding it, or 0
    clock,     \* the wall clock, in minutes since midnight
    units,     \* the _alarm_thread and _rem threads, in order of start
    listening, \* DeltaApp.listening, the busy flag of the window
    after,     \* the callbacks waiting for the Tk main loop
    tasks,     \* the threads started by the window's handlers
    chat,      \* the lines of the chat box
    sink       \* what delta.speak is bound to

vars == <<utterance, memory, storage, config, reply, hist, expr, result,
          voices, speak_lock, clock, units,
          listening, after, tasks, chat, sink>>

\* the window of delta_ui.py
gui == <<listening, after, tasks, chat, sink>>

\* the state of the threads the program starts
runtime == <<voices, speak_lock, clock, units, gui>>

\* no thread has been started and no window opened
NoRuntime ==
    /\ voices = <<>>
    /\ speak_lock = 0
    /\ clock = 0
    /\ units = <<>>
    /\ listening = FALSE
    /\ after = <<>>
    /\ tasks = <<>>
    /\ chat = <<>>
    /\ sink = "speak"

\* Python's None where a str is expected (no str has an element "None")
None == <<"None">>

(***************************************************************************)
(* Characters and the str methods the backend uses.                        *)
(***************************************************************************)
Lowers == <<"a","b","c","d","e","f","g","h","i","j","k","l","m",
            "n","o","p","q","r","s","t","u","v","w","x","y","z">>
Uppers == <<"A","B","C","D","E","F","G","H","I","J","K","L","M",
            "N","O","P","Q","R","S","T","U","V","W","X","Y","Z">>
Digits == <<"0","1","2","3","4","5","6","7","8","9">>

LowerSet == {Lowers[i] : i \in 1..26}
UpperSet == {Uppers[i] : i \in 1..26}
DigitSet == {Digits[i] : i \in 1..10}
SpaceSet == {" ", "\t", "\n"}

IsAlpha(c) == c \in LowerSet \/ c \in UpperSet
IsDigit(c) == c \in DigitSet
IsSpace(c) == c \in SpaceSet

\* str.lower() on one character
LowerChar(c) ==
    IF c \in UpperSet THEN Lowers[CHOOSE i \in 1..26 : Uppers[i] = c] ELSE c

\* str.upper() on one character
UpperChar(c) ==
    IF c \in LowerSet THEN Uppers[CHOOSE i \in 1..26 : Lowers[i] = c] ELSE c

\* str.lower()
Lower(s) == [i \in 1..Len(s) |-> LowerChar(s[i])]

\* str.capitalize(): first character upper-cased, the rest lower-cased
Capitalize(s) ==
    [i \in 1..Len(s) |-> IF i = 1 THEN UpperChar(s[i]) ELSE LowerChar(s[i])]

\* str.strip(): leading and trailing whitespace removed
Strip(s) ==
    LET keep == {i \in 1..Len(s) : ~IsSpace(s[i])}
    IN  IF keep = {} THEN <<>>
        ELSE LET lo == CHOOSE i \in keep : \A j \in keep : i <= j
                 hi == CHOOSE i \in keep : \A j \in keep : i >= j
             IN  SubSeq(s, lo, hi)

\* p occurs in s at position i
MatchAt(s, p, i) ==
    /\ i >= 1
    /\ i + Len(p) - 1 <= Len(s)
    /\ \A j \in 1..Len(p) : s[i + j - 1] = p[j]

\* s.startswith(p)
StartsWith(s, p) == MatchAt(s, p, 1)

\* p in s
Contains(s, p) == \E i \in 1..(Len(s) - Len(p) + 1) : MatchAt(s, p, i)

\* s.find(p) from position `from`, 0 when absent
Find(s, p, from) ==
    LET hits == {i \in from..(Len(s) - Len(p) + 1) : MatchAt(s, p, i)}
    IN  IF hits = {} THEN 0 ELSE CHOOSE i \in hits : \A j \in hits : i <= j

\* s.replace(old, new): every non-overlapping occurrence, left to right
RECURSIVE ReplaceFrom(_, _, _, _)
ReplaceFrom(s, old, new, from) ==
    LET i == Find(s, old, from)
    IN  IF i = 0 THEN SubSeq(s, from, Len(s))
        ELSE SubSeq(s, from, i - 1) \o new
                 \o ReplaceFrom(s, old, new, i + Len(old))

Replace(s, old, new) == ReplaceFrom(s, old, new, 1)

\* length of the longest run of characters of class `cls` starting at i
RECURSIVE RunLen(_, _, _)
RunLen(s, i, cls) ==
    IF i <= Len(s) /\ s[i] \in cls THEN 1 + RunLen(s, i + 1, cls) ELSE 0

(***************************************************************************)
(* The string literals of process_command and its handlers.                *)
(***************************************************************************)
Str ==
    [call_me |-> <<"c","a","l","l"," ","m","e"," ">>,
     my_name_is |-> <<"m","y"," ","n","a","m","e"," ","i","s"," ">>,
     time |-> <<"t","i","m","e">>,
     time_in |-> <<"t","i","m","e"," ","i","n">>,
     date |-> <<"d","a","t","e">>,
     wikipedia |-> <<"w","i","k","i","p","e","d","i","a">>,
     search_sp |-> <<"s","e","a","r","c","h"," ">>,
     search |-> <<"s","e","a","r","c","h">>,
     google |-> <<"g","o","o","g","l","e">>,
     open |-> <<"o","p","e","n">>,
     open_sp |-> <<"o","p","e","n"," ">>,
     weather |-> <<"w","e","a","t","h","e","r">>,
     news |-> <<"n","e","w","s">>,
     email |-> <<"e","m","a","i","l">>,
     joke |-> <<"j","o","k","e">>,
     your_name |-> <<"y","o","u","r"," ","n","a","m","e">>,
     who_are_you |-> <<"w","h","o"," ","a","r","e"," ","y","o","u">>,
     my_name |-> <<"m","y"," ","n","a","m","e">>,
     exit |-> <<"e","x","i","t">>,
     stop |-> <<"s","t","o","p">>,
     quit |-> <<"q","u","i","t">>,
     goodbye |-> <<"g","o","o","d","b","y","e">>,
     calculate |-> <<"c","a","l","c","u","l","a","t","e">>,
     what_is |-> <<"w","h","a","t"," ","i","s">>,
     set_alarm |-> <<"s","e","t"," ","a","l","a","r","m">>,
     alarm |-> <<"a","l","a","r","m">>,
     remind_me |-> <<"r","e","m","i","n","d"," ","m","e">>,
     define_sp |-> <<"d","e","f","i","n","e"," ">>,
     definition_of |-> <<"d","e","f","i","n","i","t","i","o","n"," ","o","f">>,
     play |-> <<"p","l","a","y">>,
     youtube |-> <<"y","o","u","t","u","b","e">>,
     on_youtube |-> <<"o","n"," ","y","o","u","t","u","b","e">>,
     notepad |-> <<"n","o","t","e","p","a","d">>,
     chrome |-> <<"c","h","r","o","m","e">>,
     http |-> <<"h","t","t","p">>,
     http_prefix |-> <<"h","t","t","p",":","/","/">>,
     dot |-> <<".">>,
     sp_in |-> <<" ","i","n">>,
     sp_at |-> <<" ","a","t">>,
     remind_me_to |-> <<"r","e","m","i","n","d"," ","m","e"," ","t","o"," ">>,
     sp_in_sp |-> <<" ","i","n"," ">>,
     not_set_yet |-> <<"n","o","t"," ","s","e","t"," ","y","e","t">>,
     minute |-> <<"m","i","n","u","t","e">>]

\* the arithmetic symbols of the math trigger: "+-*/%^"
MathSymbols == {"+", "-", "*", "/", "%", "^"}

\* the exit words of the exit trigger
ExitWords == {Str.exit, Str.stop, Str.quit, Str.goodbye}

(***************************************************************************)
(* Numbers in text: int(str) and the f-string renderings of an int.        *)
(***************************************************************************)
DigitVal(c) == (CHOOSE i \in 1..10 : Digits[i] = c) - 1

\* int(s) for a string of decimal digits
RECURSIVE ParseInt(_)
ParseInt(s) ==
    IF s = <<>> THEN 0
    ELSE 10 * ParseInt(SubSeq(s, 1, Len(s) - 1)) + DigitVal(s[Len(s)])

\* f"{n}" for n >= 0
RECURSIVE IntToStr(_)
IntToStr(n) ==
    IF n < 10 THEN <<Digits[n + 1]>>
    ELSE IntToStr(n \div 10) \o <<Digits[(n % 10) + 1]>>

\* f"{n:02d}" for n >= 0
Fmt02d(n) == IF n < 10 THEN <<"0">> \o IntToStr(n) ELSE IntToStr(n)

(***************************************************************************)
(* The regular expressions of the router and the schedulers.               *)
(***************************************************************************)
\* [a-zA-Z\s]
CityClass == LowerSet \cup UpperSet \cup SpaceSet

\* one attempt of  weather(?: in| at)? ([a-zA-Z\s]+)  anchored at i:
\* group 1, or None.  The optional group is tried first, then skipped.
WeatherMatchAt(s, i) ==
    LET k    == i + Len(Str.weather)
        opt  == MatchAt(s, Str.sp_in, k) \/ MatchAt(s, Str.sp_at, k)
        k2   == k + 3
        runA == IF opt /\ MatchAt(s, <<" ">>, k2)
                THEN RunLen(s, k2 + 1, CityClass) ELSE 0
        runB == IF MatchAt(s, <<" ">>, k)
                THEN RunLen(s, k + 1, CityClass) ELSE 0
    IN  IF ~MatchAt(s, Str.weather, i) THEN None
        ELSE IF runA >= 1 THEN SubSeq(s, k2 + 1, k2 + runA)
        ELSE IF runB >= 1 THEN SubSeq(s, k + 1, k + runB)
        ELSE None

\* re.search(r"weather(?: in| at)? ([a-zA-Z\s]+)", s): group 1 of the
\* leftmost match, or None
WeatherSearch(s) ==
    LET hits == {i \in 1..Len(s) : WeatherMatchAt(s, i) # None}
    IN  IF hits = {} THEN None
        ELSE WeatherMatchAt(s, CHOOSE i \in hits : \A j \in hits : i <= j)

\* one attempt of  (\d{1,2}:\d{2})  anchored at i: the match, or None
AlarmMatchAt(s, i) ==
    LET d(k)  == k <= Len(s) /\ IsDigit(s[k])
        two   == d(i) /\ d(i + 1) /\ MatchAt(s, <<":">>, i + 2)
                      /\ d(i + 3) /\ d(i + 4)
        one   == d(i) /\ MatchAt(s, <<":">>, i + 1) /\ d(i + 2) /\ d(i + 3)
    IN  IF two THEN SubSeq(s, i, i + 4)
        ELSE IF one THEN SubSeq(s, i, i + 3)
        ELSE None

\* re.search(r"(\d{1,2}:\d{2})", s): group 1 of the leftmost match, or None
AlarmSearch(s) ==
    LET hits == {i \in 1..Len(s) : AlarmMatchAt(s, i) # None}
    IN  IF hits = {} THEN None
        ELSE AlarmMatchAt(s, CHOOSE i \in hits : \A j \in hits : i <= j)

\* the tail  in (\d+)\s*minutes?  of the reminder pattern matches at j:
\* the digits of group 2, or None
ReminderTailAt(s, j) ==
    LET nd == RunLen(s, j + Len(Str.sp_in_sp), DigitSet)
        a  == j + Len(Str.sp_in_sp) + nd
        ns == RunLen(s, a, SpaceSet)
    IN  IF MatchAt(s, Str.sp_in_sp, j) /\ nd >= 1 /\ MatchAt(s, Str.minute, a + ns)
        THEN SubSeq(s, j + Len(Str.sp_in_sp), a - 1)
        ELSE None

\* re.search(r"remind me to (.+?) in (\d+)\s*minutes?", s):
\* <<group 1, group 2>> of the leftmost match with the shortest group 1,
\* or None
ReminderSearch(s) ==
    LET ends(i) == {j \in (i + Len(Str.remind_me_to) + 1)..Len(s) :
                       /\ ReminderTailAt(s, j) # None
                       /\ \A k \in (i + Len(Str.remind_me_to))..(j - 1) :
                              s[k] # "\n"}
        hits == {i \in 1..Len(s) :
                    MatchAt(s, Str.remind_me_to, i) /\ ends(i) # {}}
    IN  IF hits = {} THEN None
        ELSE LET i == CHOOSE x \in hits : \A y \in hits : x <= y
                 j == CHOOSE x \in ends(i) : \A y \in ends(i) : x <= y
             IN  <<SubSeq(s, i + Len(Str.remind_me_to), j - 1),
                   ReminderTailAt(s, j)>>


(***************************************************************************)
(* Texts.  A text handed to speak() is <<format, arguments>>: the literal  *)
(* or f-string of the source and the strings substituted into it.          *)
(***************************************************************************)
Msg(m) == <<m, <<>>>>
Fmt(f, a) == <<f, <<a>>>>

\* a text that came from a provider (summary, definition, error message)
Provided(a) == <<"{}", <<a>>>>

EmptyText == Msg("")

\* `not text` in speak(): the empty string and None are falsy
Falsy(text) == text = EmptyText \/ text = Provided(<<>>) \/ text = Provided(None)

\* a speak that queues the text and returns nothing to display
speak_queued_only(text) ==
    [said |-> IF Falsy(text) THEN <<>> ELSE <<text>>, ret |-> EmptyText]

\* speak(text): the text queued for vocalization (none when falsy) and the
\* value returned to the caller
speak(text) ==
    IF Falsy(text) THEN [said |-> <<>>, ret |-> EmptyText]
    ELSE [said |-> <<text>>, ret |-> text]

\* what one handler did: texts passed to speak in order, the value returned,
\* the external calls made, the background threads started
Did(said, returned, calls, started) ==
    [said |-> said, returned |-> returned, calls |-> calls, started |-> started]

\* `return speak(text)` with the calls and threads that preceded it
ReturnSpeak(text, calls, started) ==
    Did(speak(text).said, speak(text).ret, calls, started)

\* an outcome of the environment (provider answer, OS call, file system)
O(tag) == [tag |-> tag, n |-> 0]

(***************************************************************************)
(* Handlers.                                                               *)
(***************************************************************************)
tell_time ==
    ReturnSpeak(Fmt("The current time is {}", <<"%I:%M %p">>), <<>>, <<>>)

tell_date ==
    ReturnSpeak(Fmt("Today's date is {}", <<"%B %d, %Y">>), <<>>, <<>>)

search_wikipedia(cmd, o) ==
    LET topic == Strip(Replace(cmd, Str.wikipedia, <<>>))
        call  == <<<<"wikipedia.summary", topic>>>>
        first == speak(Msg("Searching Wikipedia...")).said
    IN  IF topic = <<>>
        THEN ReturnSpeak(Msg("What should I search on Wikipedia?"), <<>>, <<>>)
        ELSE IF o.tag = "found"
        THEN Did(first \o speak(Provided(<<"summary">>)).said,
                 speak(Provided(<<"summary">>)).ret, call, <<>>)
        ELSE IF o.tag = "found_empty"
        THEN Did(first \o speak(Provided(<<>>)).said,
                 speak(Provided(<<>>)).ret, call, <<>>)
        ELSE Did(first \o speak(Msg("Couldn't find information on Wikipedia.")).said,
                 Msg("Couldn't find information on Wikipedia."), call, <<>>)

search_google(cmd) ==
    LET query == Strip(Replace(Replace(cmd, Str.search, <<>>), Str.google, <<>>))
    IN  IF query = <<>>
        THEN ReturnSpeak(Msg("What should I search for?"), <<>>, <<>>)
        ELSE ReturnSpeak(Fmt("Searching Google for {}", query), <<>>,
                         <<<<"pywhatkit.search", query>>>>)

open_app_or_website(command, o) ==
    LET cmd     == Lower(command)
        target0 == Strip(Replace(command, Str.open_sp, <<>>))
        target  == IF target0 # <<>> /\ Contains(target0, Str.dot)
                      /\ ~StartsWith(target0, Str.http)
                   THEN Str.http_prefix \o target0 ELSE target0
    IN  IF Contains(cmd, Str.youtube)
        THEN ReturnSpeak(Msg("Opening YouTube."), <<>>,
                 <<<<"webbrowser.open", <<"https://www.youtube.com">>>>>>)
        ELSE IF Contains(cmd, Str.google)
        THEN ReturnSpeak(Msg("Opening Google."), <<>>,
                 <<<<"webbrowser.open", <<"https://www.google.com">>>>>>)
        ELSE IF Contains(cmd, Str.notepad)
        THEN IF o.tag = "failed"
             THEN ReturnSpeak(Msg("Unable to open Notepad."),
                              <<<<"os.system", Str.notepad>>>>, <<>>)
             ELSE ReturnSpeak(Msg("Opening Notepad."),
                              <<<<"os.system", Str.notepad>>>>, <<>>)
        ELSE IF Contains(cmd, Str.chrome)
        THEN IF o.tag = "failed"
             THEN ReturnSpeak(Msg("Unable to open Chrome. Please check the path."),
                              <<<<"os.startfile", Str.chrome>>>>, <<>>)
             ELSE ReturnSpeak(Msg("Opening Chrome."),
                              <<<<"os.startfile", Str.chrome>>>>, <<>>)
        ELSE IF StartsWith(cmd, Str.open_sp) /\ target # <<>>
        THEN ReturnSpeak(Fmt("Opening {}", target), <<>>,
                         <<<<"webbrowser.open", target>>>>)
        ELSE ReturnSpeak(Msg("I can't open that yet."), <<>>, <<>>)

tell_joke == ReturnSpeak(Provided(<<"joke">>), <<<<"pyjokes.get_joke", <<>>>>>>, <<>>)

get_weather(city, cfg, o) ==
    LET entry == <<<<"get_weather", city>>>>
        call  == <<<<"get_weather", city>>, <<"weatherapi", city>>>>
    IN  IF ~cfg.weather_key
        THEN ReturnSpeak(Msg("Weather is not configured. Set DELTA_WEATHER_API_KEY to enable weather."),
                         entry, <<>>)
        ELSE IF o.tag = "current"
        THEN ReturnSpeak(Fmt("The weather in {} is {cond}, temperature {temp}C, humidity {hum}%, wind {wind} kph.", city),
                         call, <<>>)
        ELSE IF o.tag = "error"
        THEN ReturnSpeak(Provided(<<"error message">>), call, <<>>)
        ELSE IF o.tag = "error_empty"
        THEN ReturnSpeak(Provided(<<>>), call, <<>>)
        ELSE IF o.tag = "neither"
        THEN ReturnSpeak(Msg("Couldn't fetch weather."), call, <<>>)
        ELSE ReturnSpeak(Msg("Weather lookup failed."), call, <<>>)

\* the headline f"{i}. {title}" of article i
Headline(i) == <<"{i}. {title}", <<IntToStr(i)>>>>

get_news(cfg, o) ==
    LET call  == <<<<"newsapi", <<>>>>>>
        items == IF o.n > 5 THEN 5 ELSE o.n
        heads == [i \in 1..items |-> Headline(i)]
    IN  IF ~cfg.news_key
        THEN ReturnSpeak(Msg("News is not configured. Set DELTA_NEWS_API_KEY to enable headlines."),
                         <<>>, <<>>)
        ELSE IF o.tag = "ok" /\ items = 0
        THEN ReturnSpeak(Msg("No news found."), call, <<>>)
        ELSE IF o.tag = "ok"
        THEN Did(<<Msg("Here are the top headlines:")>> \o heads,
                 <<"\n.join(headlines)", heads>>, call, <<>>)
        ELSE IF o.tag = "not_ok"
        THEN ReturnSpeak(Msg("Could not fetch news."), call, <<>>)
        ELSE ReturnSpeak(Msg("News lookup failed."), call, <<>>)

\* send_email(to, subject, body): the SMTP session is opened only with both
\* credentials set
send_email(to, cfg, o) ==
    IF ~cfg.email_sender \/ ~cfg.email_password
    THEN ReturnSpeak(Msg("Email not configured. Set DELTA_EMAIL_SENDER and DELTA_EMAIL_PASSWORD to enable sending."),
                     <<>>, <<>>)
    ELSE IF o.tag = "sent"
    THEN ReturnSpeak(Msg("Email sent successfully."), <<<<"smtp", to>>>>, <<>>)
    ELSE ReturnSpeak(Msg("Unable to send the email right now."),
                     <<<<"smtp", to>>>>, <<>>)

set_alarm(command) ==
    LET m     == AlarmSearch(command)
        colon == Find(m, <<":">>, 1)
        hh    == ParseInt(SubSeq(m, 1, colon - 1))
        mm    == ParseInt(SubSeq(m, colon + 1, Len(m)))
        alarm_time == Fmt02d(hh) \o <<":">> \o Fmt02d(mm)
    IN  IF m # None
        THEN ReturnSpeak(Fmt("Alarm set for {}", alarm_time), <<>>,
                         <<<<"_alarm_thread", alarm_time>>>>)
        ELSE ReturnSpeak(Msg("Please tell me the alarm time in HH:MM format."),
                         <<>>, <<>>)

set_reminder(command) ==
    LET m       == ReminderSearch(command)
        action  == Strip(m[1])
        minutes == ParseInt(m[2])
    IN  IF m # None
        THEN ReturnSpeak(Fmt("Reminder set for {} minutes from now.", IntToStr(minutes)),
                         <<>>, <<<<"_rem", <<IntToStr(minutes), action>>>>>>)
        ELSE ReturnSpeak(Msg("Please say reminders like: remind me to buy milk in 10 minutes."),
                         <<>>, <<>>)

get_definition(word, o) ==
    LET call == <<<<"dictionaryapi", word>>>>
    IN  IF o.tag = "found"
        THEN ReturnSpeak(Provided(<<"definition">>), call, <<>>)
        ELSE IF o.tag = "found_none"
        THEN ReturnSpeak(Provided(None), call, <<>>)
        ELSE IF o.tag = "not_found"
        THEN ReturnSpeak(Msg("I couldn't find a definition."), call, <<>>)
        ELSE ReturnSpeak(Msg("Definition lookup failed."), call, <<>>)


(***************************************************************************)
(* Memory store: MEMORY_FILE on disk, json.load / json.dump, and the       *)
(* module-level `memory` object.                                           *)
(*   storage: [k |-> "missing" | "unreadable" | "garbage" | "json",        *)
(*             j |-> JSON kind of the document, v |-> its members]         *)
(*   memory : [t |-> Python type of the object, v |-> its items]           *)
(***************************************************************************)
NoFile     == [k |-> "missing",    j |-> "none", v |-> <<>>]
Unreadable == [k |-> "unreadable", j |-> "none", v |-> <<>>]
Garbage    == [k |-> "garbage",    j |-> "none", v |-> <<>>]
JsonFile(j, v) == [k |-> "json", j |-> j, v |-> v]

EmptyDict == [t |-> "dict", v |-> <<>>]

\* the Python type json.load gives a JSON document of kind j
PyTypeOf(j) ==
    CASE j = "object" -> "dict"
      [] j = "array"  -> "list"
      [] j = "string" -> "str"
      [] j = "number" -> "int"
      [] OTHER        -> "NoneType"

\* the JSON kind json.dump writes for a Python object of type t
JsonKindOf(t) ==
    CASE t = "dict" -> "object"
      [] t = "list" -> "array"
      [] t = "str"  -> "string"
      [] t = "int"  -> "number"
      [] OTHER      -> "null"

\* _load_memory(): whatever json.load returns, {} on any exception
_load_memory(file) ==
    IF file.k = "json" THEN [t |-> PyTypeOf(file.j), v |-> file.v]
    ELSE EmptyDict

\* a save that reports success without writing the file
_save_memory_not_flushed(mem, file, o) == file

\* _save_memory(mem): the file afterwards.  open() may fail (file left as it
\* was) and the write may fail after open() truncated the file.
_save_memory(mem, file, o) ==
    IF o.tag = "saved" THEN JsonFile(JsonKindOf(mem.t), mem.v)
    ELSE IF o.tag = "open_failed" THEN file
    ELSE Garbage

\* memory["name"] = name
SetItem(mem, key, val) ==
    [t |-> "dict",
     v |-> [x \in (DOMAIN mem.v) \cup {key} |-> IF x = key THEN val ELSE mem.v[x]]]

\* memory.get(key, default)
GetItem(mem, key, default) ==
    IF key \in DOMAIN mem.v THEN mem.v[key] ELSE default


(***************************************************************************)
(* The safe math evaluator (delta.py:133-172).                             *)
(*                                                                         *)
(* Values are tagged with their Python type.  An int carries its value as  *)
(* long as the value stays within Tracked; floats and complex numbers      *)
(* carry no value, so an operation whose outcome depends on the value of   *)
(* a float has every outcome Python can give it.  Evaluation is therefore  *)
(* a relation: _eval_node gives the set of possible outcomes.              *)
(***************************************************************************)
Tracked == 10000

PyInt(n) == [kind |-> "int", known |-> TRUE, v |-> n, name |-> ""]
SomeInt == [kind |-> "int", known |-> FALSE, v |-> 0, name |-> ""]
PyBool(n) == [kind |-> "bool", known |-> TRUE, v |-> n, name |-> ""]
PyFloat == [kind |-> "float", known |-> FALSE, v |-> 0, name |-> ""]
PyComplex == [kind |-> "complex", known |-> FALSE, v |-> 0, name |-> ""]
PyFunction(id) == [kind |-> "function", known |-> TRUE, v |-> 0, name |-> id]
Exc(cls) == [kind |-> "raise", known |-> TRUE, v |-> 0, name |-> cls]

\* an int result, its value kept while it is within Tracked
Track(n) == IF n > Tracked \/ n < -Tracked THEN SomeInt ELSE PyInt(n)

IsIntLike(x) == x.kind \in {"int", "bool"}
IsReal(x) == x.kind \in {"int", "bool", "float"}
IsNumber(x) == x.kind \in {"int", "bool", "float", "complex"}
IsKnownInt(x) == IsIntLike(x) /\ x.known

\* the classes of ast nodes
Constant(type, value) == [node |-> "Constant", type |-> type, value |-> value]
Name(id) == [node |-> "Name", id |-> id]
BinOp(left, op, right) ==
    [node |-> "BinOp", left |-> left, op |-> op, right |-> right]
UnaryOp(op, operand) == [node |-> "UnaryOp", op |-> op, operand |-> operand]
Call(func, args, keywords) ==
    [node |-> "Call", func |-> func, args |-> args, keywords |-> keywords]
OtherNode(cls) == [node |-> cls]

ALLOWED_OPERATORS ==
    {"Add", "Sub", "Mult", "Div", "Pow", "Mod", "FloorDiv", "USub"}

SafeFunctions ==
    {"sin", "cos", "tan", "sqrt", "log", "log10", "ceil", "floor",
     "factorial", "fabs"}
SafeConstants == {"pi", "e"}
SAFE_NAMES == SafeFunctions \cup SafeConstants

\* SAFE_NAMES[id]
SafeValue(id) == IF id \in SafeFunctions THEN PyFunction(id) ELSE PyFloat

Abs(n) == IF n < 0 THEN -n ELSE n

\* the quotient of C's integer division, which truncates toward zero
TruncDiv(a, b) ==
    LET q == Abs(a) \div Abs(b)
    IN  IF (a < 0) = (b < 0) THEN q ELSE -q

\* a floor division that forgets to adjust the truncated quotient
op_floordiv_truncating(a, b) == TruncDiv(a, b)

\* op.floordiv on ints, b # 0: the truncated quotient, lowered by one when
\* the remainder is nonzero and its sign differs from the divisor's
op_floordiv(a, b) ==
    LET q == TruncDiv(a, b)
        r == a - q * b
    IN  IF r # 0 /\ ((r < 0) # (b < 0)) THEN q - 1 ELSE q

\* op.mod on ints, b # 0: the remainder takes the sign of the divisor
op_mod(a, b) ==
    LET r == a - TruncDiv(a, b) * b
    IN  IF r # 0 /\ ((r < 0) # (b < 0)) THEN r + b ELSE r

\* op.pow on ints, b >= 0; a magnitude beyond Tracked is not multiplied on
RECURSIVE IntPow(_, _)
IntPow(a, b) ==
    IF b = 0 THEN 1
    ELSE LET p == IntPow(a, b - 1)
         IN  IF Abs(p) > Tracked THEN p ELSE p * a

\* math.factorial on an int n >= 0, likewise
RECURSIVE Factorial(_)
Factorial(n) ==
    IF n <= 1 THEN 1
    ELSE LET p == Factorial(n - 1)
         IN  IF p > Tracked THEN p ELSE p * n

\* ALLOWED_OPERATORS[op](a, b) on two ints of known value
IntOp(op, a, b) ==
    CASE op = "Add"  -> Track(a + b)
      [] op = "Sub"  -> Track(a - b)
      [] op = "Mult" -> Track(a * b)
      [] op = "Div"  -> IF b = 0 THEN Exc("ZeroDivisionError") ELSE PyFloat
      [] op = "FloorDiv" ->
             IF b = 0 THEN Exc("ZeroDivisionError") ELSE Track(op_floordiv(a, b))
      [] op = "Mod" ->
             IF b = 0 THEN Exc("ZeroDivisionError") ELSE Track(op_mod(a, b))
      [] op = "Pow" ->
             IF b >= 0 THEN Track(IntPow(a, b))
             ELSE IF a = 0 THEN Exc("ZeroDivisionError")
             ELSE PyFloat

\* ALLOWED_OPERATORS[op](l, r) when a float or an int of untracked value
\* takes part
RealOp(op, l, r) ==
    LET res == IF l.kind = "float" \/ r.kind = "float" \/ op = "Div"
               THEN PyFloat ELSE SomeInt
        big == IF (IsIntLike(l) /\ ~l.known) \/ (IsIntLike(r) /\ ~r.known)
               THEN {Exc("OverflowError")} ELSE {}
    IN  CASE op \in {"Add", "Sub", "Mult"} ->
                 IF res = PyFloat THEN {res} \cup big ELSE {res}
          [] op \in {"Div", "FloorDiv", "Mod"} ->
                 IF IsKnownInt(r)
                 THEN IF r.v = 0 THEN {Exc("ZeroDivisionError")}
                      ELSE {res} \cup big
                 ELSE {res, Exc("ZeroDivisionError")} \cup big
          [] op = "Pow" ->
                 {PyFloat, PyComplex, Exc("ZeroDivisionError"),
                  Exc("OverflowError")}
                 \cup (IF IsIntLike(l) /\ IsIntLike(r) THEN {SomeInt} ELSE {})

\* ALLOWED_OPERATORS[op_type](left, right): the results it can give
ApplyBin(op, l, r) ==
    IF ~IsNumber(l) \/ ~IsNumber(r) THEN {Exc("TypeError")}
    ELSE IF l.kind = "complex" \/ r.kind = "complex"
    THEN CASE op \in {"Add", "Sub", "Mult"} -> {PyComplex}
           [] op = "Div" -> {PyComplex, Exc("ZeroDivisionError")}
           [] op = "Pow" -> {PyComplex, Exc("ZeroDivisionError"),
                             Exc("OverflowError")}
           [] OTHER -> {Exc("TypeError")}
    ELSE IF IsKnownInt(l) /\ IsKnownInt(r) THEN {IntOp(op, l.v, r.v)}
    ELSE RealOp(op, l, r)

\* ALLOWED_OPERATORS[ast.USub](operand), that is op.neg
op_neg(x) ==
    CASE ~IsNumber(x) -> Exc("TypeError")
      [] IsKnownInt(x) -> PyInt(-x.v)
      [] IsIntLike(x)  -> SomeInt
      [] OTHER         -> x

\* math.log(x) and math.log10(x)
Logarithm(x) ==
    IF IsKnownInt(x)
    THEN IF x.v <= 0 THEN {Exc("ValueError")} ELSE {PyFloat}
    ELSE {PyFloat, Exc("ValueError")}

\* math.log(x, base)
LogarithmTo(x, base) ==
    IF IsKnownInt(x) /\ IsKnownInt(base)
    THEN IF x.v <= 0 \/ base.v <= 0 THEN {Exc("ValueError")}
         ELSE IF base.v = 1 THEN {Exc("ZeroDivisionError")}
         ELSE {PyFloat}
    ELSE {PyFloat, Exc("ValueError"), Exc("ZeroDivisionError")}

\* SAFE_NAMES[id](*args): the results the call can give
ApplyFunction(id, args) ==
    IF id \notin SafeFunctions THEN {Exc("TypeError")}
    ELSE IF Len(args) \notin (IF id = "log" THEN {1, 2} ELSE {1})
    THEN {Exc("TypeError")}
    ELSE IF \E i \in 1..Len(args) : ~IsReal(args[i]) THEN {Exc("TypeError")}
    ELSE LET x == args[1]
         IN  CASE id \in {"sin", "cos", "tan"} ->
                      IF IsKnownInt(x) THEN {PyFloat}
                      ELSE {PyFloat, Exc("ValueError"), Exc("OverflowError")}
               [] id = "fabs" ->
                      IF IsKnownInt(x) \/ x.kind = "float" THEN {PyFloat}
                      ELSE {PyFloat, Exc("OverflowError")}
               [] id = "sqrt" ->
                      IF IsKnownInt(x)
                      THEN IF x.v < 0 THEN {Exc("ValueError")} ELSE {PyFloat}
                      ELSE {PyFloat, Exc("ValueError"), Exc("OverflowError")}
               [] id = "log10" -> Logarithm(x)
               [] id = "log" ->
                      IF Len(args) = 1 THEN Logarithm(x)
                      ELSE LogarithmTo(x, args[2])
               [] id \in {"ceil", "floor"} ->
                      IF IsKnownInt(x) THEN {PyInt(x.v)}
                      ELSE IF IsIntLike(x) THEN {SomeInt}
                      ELSE {SomeInt, Exc("ValueError"), Exc("OverflowError")}
               [] id = "factorial" ->
                      IF IsKnownInt(x)
                      THEN IF x.v < 0 THEN {Exc("ValueError")}
                           ELSE {Track(Factorial(x.v))}
                      ELSE IF IsIntLike(x)
                      THEN {SomeInt, Exc("ValueError"), Exc("OverflowError")}
                      ELSE {SomeInt, Exc("ValueError"), Exc("TypeError")}

\* what an evaluation gives: the value returned or the exception raised, and
\* the functions it has called
Out(v, invoked) == [v |-> v, invoked |-> invoked]

Raised(x) == x.v.kind = "raise"

RECURSIVE _eval_node(_)
RECURSIVE EvalList(_)

\* [_eval_node(a) for a in nodes], left to right, stopping at the first
\* exception
EvalList(nodes) ==
    IF nodes = <<>> THEN {[vals |-> <<>>, exc |-> "", invoked |-> {}]}
    ELSE UNION
         {IF Raised(h)
          THEN {[vals |-> <<>>, exc |-> h.v.name, invoked |-> h.invoked]}
          ELSE {[vals |-> IF t.exc = "" THEN <<h.v>> \o t.vals ELSE <<>>,
                 exc |-> t.exc,
                 invoked |-> h.invoked \cup t.invoked]
                : t \in EvalList(Tail(nodes))}
          : h \in _eval_node(Head(nodes))}

\* _eval_node, the BinOp case: both children first, then the operator
EvalBinOp(node) ==
    UNION
    {IF Raised(l) THEN {l}
     ELSE UNION
          {IF Raised(r) THEN {Out(r.v, l.invoked \cup r.invoked)}
           ELSE IF node.op \in ALLOWED_OPERATORS
           THEN {Out(x, l.invoked \cup r.invoked)
                 : x \in ApplyBin(node.op, l.v, r.v)}
           ELSE {Out(Exc("ValueError"), l.invoked \cup r.invoked)}
           : r \in _eval_node(node.right)}
     : l \in _eval_node(node.left)}

\* _eval_node, the UnaryOp case: the operator first, then the operand
EvalUnaryOp(node) ==
    IF node.op \in ALLOWED_OPERATORS
    THEN {IF Raised(x) THEN x ELSE Out(op_neg(x.v), x.invoked)
          : x \in _eval_node(node.operand)}
    ELSE {Out(Exc("ValueError"), {})}

\* _eval_node, the Call case: the positional arguments are evaluated and
\* passed on; node.keywords is not looked at
EvalCall(node) ==
    IF node.func.node = "Name" /\ node.func.id \in SAFE_NAMES
    THEN UNION
         {IF a.exc # "" THEN {Out(Exc(a.exc), a.invoked)}
          ELSE {Out(y, a.invoked \cup
                       (IF node.func.id \in SafeFunctions
                        THEN {node.func.id} ELSE {}))
                : y \in ApplyFunction(node.func.id, a.vals)}
          : a \in EvalList(node.args)}
    ELSE {Out(Exc("ValueError"), {})}

_eval_node(node) ==
    CASE node.node = "Constant" ->
             IF node.type = "int" THEN {Out(PyInt(node.value), {})}
             ELSE IF node.type = "bool" THEN {Out(PyBool(node.value), {})}
             ELSE IF node.type = "float" THEN {Out(PyFloat, {})}
             ELSE {Out(Exc("ValueError"), {})}
      [] node.node = "BinOp" -> EvalBinOp(node)
      [] node.node = "UnaryOp" -> EvalUnaryOp(node)
      [] node.node = "Call" -> EvalCall(node)
      [] node.node = "Name" ->
             IF node.id \in SAFE_NAMES THEN {Out(SafeValue(node.id), {})}
             ELSE {Out(Exc("ValueError"), {})}
      [] OTHER -> {Out(Exc("ValueError"), {})}

\* _safe_eval once the text is parsed: any exception becomes ValueError
_safe_eval(node) ==
    {IF Raised(x) THEN Out(Exc("ValueError"), x.invoked) ELSE x
     : x \in _eval_node(node)}

\* the operator class ast.parse gives a binary operator symbol
OperatorOf(sym) ==
    CASE sym = <<"+">> -> "Add"
      [] sym = <<"-">> -> "Sub"
      [] sym = <<"*">> -> "Mult"
      [] sym = <<"/">> -> "Div"
      [] sym = <<"/", "/">> -> "FloorDiv"
      [] sym = <<"%">> -> "Mod"
      [] sym = <<"*", "*">> -> "Pow"
      [] sym = <<"^">> -> "BitXor"
      [] sym = <<"&">> -> "BitAnd"
      [] sym = <<"|">> -> "BitOr"

SymbolChars == {"+", "-", "*", "/", "%", "^", "&", "|"}

\* ast.parse(expr, mode="eval").body for a text of the form
\* <digits> <operator> <digits>
ast_parse(src) ==
    LET n1 == RunLen(src, 1, DigitSet)
        i2 == n1 + 1 + RunLen(src, n1 + 1, {" "})
        n2 == RunLen(src, i2, SymbolChars)
        i3 == i2 + n2 + RunLen(src, i2 + n2, {" "})
    IN  BinOp(Constant("int", ParseInt(SubSeq(src, 1, n1))),
              OperatorOf(SubSeq(src, i2, i2 + n2 - 1)),
              Constant("int", ParseInt(SubSeq(src, i3, Len(src)))))

(***************************************************************************)
(* process_command (delta.py:350-452).                                     *)
(***************************************************************************)
\* cmd = command.lower().strip()
Normalize(command) == Strip(Lower(command))

\* any(ch in cmd for ch in "+-*/%^")
HasMathSymbol(cmd) == \E i \in 1..Len(cmd) : cmd[i] \in MathSymbols

\* any(w in cmd for w in ("exit", "stop", "quit", "goodbye"))
HasExitWord(cmd) == \E w \in ExitWords : Contains(cmd, w)

\* Branch with the math trigger tested before the weather trigger
BranchMathBeforeWeather(command) ==
    LET cmd == Normalize(command)
    IN  IF command = <<>> THEN "empty"
        ELSE IF StartsWith(cmd, Str.call_me) \/ StartsWith(cmd, Str.my_name_is)
             THEN "name_setting"
        ELSE IF Contains(cmd, Str.time) /\ ~StartsWith(cmd, Str.time_in)
             THEN "tell_time"
        ELSE IF Contains(cmd, Str.date) THEN "tell_date"
        ELSE IF Contains(cmd, Str.wikipedia) THEN "search_wikipedia"
        ELSE IF StartsWith(cmd, Str.search_sp) \/ Contains(cmd, Str.google)
             THEN "search_google"
        ELSE IF Contains(cmd, Str.open) THEN "open_app_or_website"
        ELSE IF Contains(cmd, Str.calculate) \/ HasMathSymbol(cmd)
                \/ StartsWith(cmd, Str.what_is)
             THEN "math"
        ELSE IF Contains(cmd, Str.weather) THEN "weather"
        ELSE IF Contains(cmd, Str.news) THEN "get_news"
        ELSE IF Contains(cmd, Str.email) THEN "email"
        ELSE IF Contains(cmd, Str.joke) THEN "tell_joke"
        ELSE IF Contains(cmd, Str.your_name) \/ Contains(cmd, Str.who_are_you)
             THEN "identity"
        ELSE IF Contains(cmd, Str.my_name) THEN "my_name"
        ELSE IF HasExitWord(cmd) THEN "exit"
        ELSE IF Contains(cmd, Str.set_alarm) \/ Contains(cmd, Str.alarm)
             THEN "set_alarm"
        ELSE IF Contains(cmd, Str.remind_me) THEN "set_reminder"
        ELSE IF StartsWith(cmd, Str.define_sp) \/ Contains(cmd, Str.definition_of)
             THEN "definition"
        ELSE IF Contains(cmd, Str.play) /\ Contains(cmd, Str.youtube)
             THEN "play_youtube"
        ELSE "fallback"

\* Branch with the open trigger tested before the search/google trigger
BranchOpenBeforeSearch(command) ==
    LET cmd == Normalize(command)
    IN  IF command = <<>> THEN "empty"
        ELSE IF StartsWith(cmd, Str.call_me) \/ StartsWith(cmd, Str.my_name_is)
             THEN "name_setting"
        ELSE IF Contains(cmd, Str.time) /\ ~StartsWith(cmd, Str.time_in)
             THEN "tell_time"
        ELSE IF Contains(cmd, Str.date) THEN "tell_date"
        ELSE IF Contains(cmd, Str.wikipedia) THEN "search_wikipedia"
        ELSE IF Contains(cmd, Str.open) THEN "open_app_or_website"
        ELSE IF StartsWith(cmd, Str.search_sp) \/ Contains(cmd, Str.google)
             THEN "search_google"
        ELSE IF Contains(cmd, Str.weather) THEN "weather"
        ELSE IF Contains(cmd, Str.news) THEN "get_news"
        ELSE IF Contains(cmd, Str.email) THEN "email"
        ELSE IF Contains(cmd, Str.joke) THEN "tell_joke"
        ELSE IF Contains(cmd, Str.your_name) \/ Contains(cmd, Str.who_are_you)
             THEN "identity"
        ELSE IF Contains(cmd, Str.my_name) THEN "my_name"
        ELSE IF HasExitWord(cmd) THEN "exit"
        ELSE IF Contains(cmd, Str.calculate) \/ HasMathSymbol(cmd)
                \/ StartsWith(cmd, Str.what_is)
             THEN "math"
        ELSE IF Contains(cmd, Str.set_alarm) \/ Contains(cmd, Str.alarm)
             THEN "set_alarm"
        ELSE IF Contains(cmd, Str.remind_me) THEN "set_reminder"
        ELSE IF StartsWith(cmd, Str.define_sp) \/ Contains(cmd, Str.definition_of)
             THEN "definition"
        ELSE IF Contains(cmd, Str.play) /\ Contains(cmd, Str.youtube)
             THEN "play_youtube"
        ELSE "fallback"

\* the if-chain of process_command: the branch that handles `command`
Branch(command) ==
    LET cmd == Normalize(command)
    IN  IF command = <<>> THEN "empty"
        ELSE IF StartsWith(cmd, Str.call_me) \/ StartsWith(cmd, Str.my_name_is)
             THEN "name_setting"
        ELSE IF Contains(cmd, Str.time) /\ ~StartsWith(cmd, Str.time_in)
             THEN "tell_time"
        ELSE IF Contains(cmd, Str.date) THEN "tell_date"
        ELSE IF Contains(cmd, Str.wikipedia) THEN "search_wikipedia"
        ELSE IF StartsWith(cmd, Str.search_sp) \/ Contains(cmd, Str.google)
             THEN "search_google"
        ELSE IF Contains(cmd, Str.open) THEN "open_app_or_website"
        ELSE IF Contains(cmd, Str.weather) THEN "weather"
        ELSE IF Contains(cmd, Str.news) THEN "get_news"
        ELSE IF Contains(cmd, Str.email) THEN "email"
        ELSE IF Contains(cmd, Str.joke) THEN "tell_joke"
        ELSE IF Contains(cmd, Str.your_name) \/ Contains(cmd, Str.who_are_you)
             THEN "identity"
        ELSE IF Contains(cmd, Str.my_name) THEN "my_name"
        ELSE IF HasExitWord(cmd) THEN "exit"
        ELSE IF Contains(cmd, Str.calculate) \/ HasMathSymbol(cmd)
                \/ StartsWith(cmd, Str.what_is)
             THEN "math"
        ELSE IF Contains(cmd, Str.set_alarm) \/ Contains(cmd, Str.alarm)
             THEN "set_alarm"
        ELSE IF Contains(cmd, Str.remind_me) THEN "set_reminder"
        ELSE IF StartsWith(cmd, Str.define_sp) \/ Contains(cmd, Str.definition_of)
             THEN "definition"
        ELSE IF Contains(cmd, Str.play) /\ Contains(cmd, Str.youtube)
             THEN "play_youtube"
        ELSE "fallback"

\* name = cmd.replace("call me ", "").replace("my name is ", "").strip()
NameOf(cmd) ==
    Strip(Replace(Replace(cmd, Str.call_me, <<>>), Str.my_name_is, <<>>))

\* the weather branch (delta.py:386-393)
WeatherBranch(cmd, cfg, o) ==
    LET m == WeatherSearch(cmd)
    IN  IF m # None THEN get_weather(Strip(m), cfg, o)
        ELSE ReturnSpeak(Msg("Which city would you like the weather for?"),
                         <<>>, <<>>)

\* expr = cmd.replace("calculate", "").replace("what is", "").strip()
Expression(cmd) ==
    Strip(Replace(Replace(cmd, Str.calculate, <<>>), Str.what_is, <<>>))

\* the math branch (delta.py:420-426)
MathBranch(cmd, o) ==
    LET call == <<<<"_safe_eval", Expression(cmd)>>>>
    IN  IF o.tag = "value"
        THEN ReturnSpeak(Fmt("The result is {}", <<"result">>), call, <<>>)
        ELSE ReturnSpeak(Msg("I couldn't calculate that."), call, <<>>)

\* the definition branch (delta.py:435-439)
DefinitionBranch(cmd, o) ==
    LET word == Strip(Replace(Replace(cmd, Str.define_sp, <<>>),
                              Str.definition_of, <<>>))
    IN  IF word # <<>> THEN get_definition(word, o)
        ELSE ReturnSpeak(Msg("Which word should I define?"), <<>>, <<>>)

\* the play branch (delta.py:442-447)
PlayBranch(cmd) ==
    LET q == Strip(Replace(Replace(cmd, Str.play, <<>>), Str.on_youtube, <<>>))
    IN  IF q # <<>>
        THEN ReturnSpeak(Fmt("Playing {} on YouTube.", q), <<>>,
                         <<<<"pywhatkit.playonyt", q>>>>)
        ELSE ReturnSpeak(Msg("What should I play?"), <<>>, <<>>)

\* the fallback (delta.py:450-452): one text spoken, another returned
Fallback ==
    Did(speak(Msg("I didn't understand that. Should I search the web for it?")).said,
        Msg("I didn't understand that. Say 'yes' to search the web."),
        <<>>, <<>>)

\* an exception leaves process_command: nothing spoken, nothing returned
Raise == Did(<<>>, EmptyText, <<>>, <<>>)

\* the outcomes the environment can give the branch that handles `command`
OutcomesOf(b, cmd, mem, cfg) ==
        CASE b = "name_setting" /\ mem.t = "dict" ->
                 {O("saved"), O("open_failed"), O("write_failed")}
          [] b = "search_wikipedia" -> {O("found"), O("found_empty"), O("failed")}
          [] b = "open_app_or_website" /\ Contains(cmd, Str.chrome) ->
                 {O("ok"), O("failed")}
          [] b = "weather" /\ cfg.weather_key ->
                 {O("current"), O("error"), O("error_empty"), O("neither"), O("failed")}
          [] b = "get_news" /\ cfg.news_key ->
                 {[tag |-> "ok", n |-> k] : k \in {0, 2, 7}}
                     \cup {O("not_ok"), O("failed")}
          [] b = "math" -> {O("value"), O("error")}
          [] b = "definition" ->
                 {O("found"), O("found_none"), O("not_found"), O("failed")}
          [] OTHER -> {O("ok")}

Outcomes(command, mem, cfg) ==
    OutcomesOf(Branch(command), Normalize(command), mem, cfg)

\* what process_command hands back to the model: its reply record (the
\* branch taken, whether an exception left it, what it said, returned,
\* called and started) and the memory object and file afterwards
Finish(b, raised, did, mem, file, o) ==
    [reply   |-> [branch |-> b, raised |-> raised, said |-> did.said,
                  returned |-> did.returned, calls |-> did.calls,
                  started |-> did.started, outcome |-> o.tag],
     memory  |-> mem,
     storage |-> file]

\* the name-setting branch (delta.py:361-365) once memory["name"] is assigned
NameSetting(b, mem2, file, o) ==
    Finish(b, FALSE,
           ReturnSpeak(Fmt("Okay, I'll call you {}.", mem2.v["name"]),
                       <<<<"_save_memory", mem2.v["name"]>>>>, <<>>),
           mem2, _save_memory(mem2, file, o), o)

\* the branches that leave memory and the file alone
Handler(b, cmd, mem, cfg, o) ==
    CASE b = "empty" ->
           ReturnSpeak(Msg("I didn't hear anything. Please say that again or type your command."),
                       <<>>, <<>>)
      [] b = "tell_time" -> tell_time
      [] b = "tell_date" -> tell_date
      [] b = "search_wikipedia" -> search_wikipedia(cmd, o)
      [] b = "search_google" -> search_google(cmd)
      [] b = "open_app_or_website" -> open_app_or_website(cmd, o)
      [] b = "weather" -> WeatherBranch(cmd, cfg, o)
      [] b = "get_news" -> get_news(cfg, o)
      [] b = "email" ->
           ReturnSpeak(Msg("To send an email, please provide recipient, subject and message in the UI."),
                       <<>>, <<>>)
      [] b = "tell_joke" -> tell_joke
      [] b = "identity" ->
           ReturnSpeak(Msg("I am Delta, your personal AI assistant."), <<>>, <<>>)
      [] b = "my_name" ->
           ReturnSpeak(Fmt("Your name is {}.", GetItem(mem, "name", Str.not_set_yet)),
                       <<>>, <<>>)
      [] b = "exit" -> ReturnSpeak(Msg("Goodbye. Shutting down."), <<>>, <<>>)
      [] b = "math" -> MathBranch(cmd, o)
      [] b = "set_alarm" -> set_alarm(cmd)
      [] b = "set_reminder" -> set_reminder(cmd)
      [] b = "definition" -> DefinitionBranch(cmd, o)
      [] b = "play_youtube" -> PlayBranch(cmd)
      [] OTHER -> Fallback

\* a router that also keeps the last command in the memory object
DispatchKeepingLast(b, cmd, mem, file, cfg, o) ==
    IF mem.t # "dict" THEN Finish(b, TRUE, Raise, mem, file, o)
    ELSE Finish(b, FALSE, Handler(b, cmd, mem, cfg, o),
                SetItem(mem, "last", cmd), file, o)

\* the body of process_command once the branch b and cmd are known.
\* memory["name"] = ... and memory.get(...) raise when the memory object is
\* not a dict (TypeError / AttributeError), before anything is spoken.
Dispatch(b, cmd, mem, file, cfg, o) ==
    IF b \in {"name_setting", "my_name"} /\ mem.t # "dict"
    THEN Finish(b, TRUE, Raise, mem, file, o)
    ELSE IF b = "name_setting"
    THEN NameSetting(b, SetItem(mem, "name", Capitalize(NameOf(cmd))), file, o)
    ELSE Finish(b, FALSE, Handler(b, cmd, mem, cfg, o), mem, file, o)

\* process_command(command) in a process whose memory object is `mem`, whose
\* MEMORY_FILE is `file`, under configuration `cfg` and environment outcome o
process_command(command, mem, file, cfg, o) ==
    Dispatch(Branch(command), Normalize(command), mem, file, cfg, o)

(***************************************************************************)
(* Utterances: phrases joined by single spaces.  The empty phrase gives    *)
(* the empty utterance and leading, trailing and doubled spaces.           *)
(***************************************************************************)
MaxPhrases == 2

Phrases ==
    {<<>>,
     <<"c","a","l","l"," ","m","e">>,
     <<"m","y"," ","n","a","m","e"," ","i","s">>,
     <<"A","d","a">>,
     <<"t","i","m","e">>,
     <<"i","n">>,
     <<"d","a","t","e">>,
     <<"w","i","k","i","p","e","d","i","a">>,
     <<"s","e","a","r","c","h">>,
     <<"g","o","o","g","l","e">>,
     <<"o","p","e","n">>,
     <<"w","e","a","t","h","e","r"," ","i","n">>,
     <<"w","e","a","t","h","e","r"," ","a","t">>,
     <<"p","a","r","i","s">>,
     <<"n","e","w","s">>,
     <<"e","m","a","i","l">>,
     <<"j","o","k","e">>,
     <<"y","o","u","r"," ","n","a","m","e">>,
     <<"w","h","o"," ","a","r","e"," ","y","o","u">>,
     <<"m","y"," ","n","a","m","e">>,
     <<"s","t","o","p">>,
     <<"c","a","l","c","u","l","a","t","e">>,
     <<"w","h","a","t"," ","i","s">>,
     <<"2","+","3">>,
     <<"5">>,
     <<"a","l","a","r","m">>,
     <<"7",":","3","0">>,
     <<"r","e","m","i","n","d"," ","m","e"," ","t","o">>,
     <<"i","n"," ","5"," ","m","i","n","u","t","e","s">>,
     <<"d","e","f","i","n","e">>,
     <<"d","e","f","i","n","i","t","i","o","n"," ","o","f">>,
     <<"p","l","a","y">>,
     <<"o","n"," ","y","o","u","t","u","b","e">>}

RECURSIVE Join(_)
Join(ps) ==
    IF Len(ps) = 0 THEN <<>>
    ELSE IF Len(ps) = 1 THEN ps[1]
    ELSE ps[1] \o <<" ">> \o Join(Tail(ps))

\* the examples of the documentation, and inputs with unusual spacing and case
Examples ==
    {<<"w","h","a","t"," ","i","s"," ","t","h","e"," ","w","e","a","t","h","e","r"," ","i","n"," ","p","a","r","i","s">>,
     <<"w","e","a","t","h","e","r"," ","i","n"," ","n","e","w"," ","y","o","r","k">>,
     <<"W","h","a","t"," ","i","s"," ","t","h","e"," ","W","e","a","t","h","e","r"," ","i","n"," ","P","a","r","i","s">>,
     <<"w","h","a","t"," ","i","s"," ","t","h","e"," ","w","e","a","t","h","e","r">>,
     <<"w","e","a","t","h","e","r"," "," ","5">>,
     <<"w","e","a","t","h","e","r"," ","i","n"," "," ","5">>,
     <<"w","e","a","t","h","e","r"," ","a","t"," ","5">>,
     <<" ","\t"," ">>,
     <<"\t","w","e","a","t","h","e","r"," ","i","n"," ","p","a","r","i","s","\n">>,
     <<"r","e","m","i","n","d"," ","m","e"," ","t","o"," ","b","u","y"," ","m","i","l","k"," ","i","n"," ","1","0"," ","m","i","n","u","t","e","s">>,
     <<"s","e","t"," ","a","l","a","r","m"," ","f","o","r"," ","7",":","0","5"," ","p","l","e","a","s","e">>,
     <<"w","h","a","t"," ","i","s"," ","2"," ","+"," ","3"," ","*"," ","4">>,
     <<"p","l","a","y"," ","d","e","s","p","a","c","i","t","o"," ","o","n"," ","y","o","u","t","u","b","e">>,
     <<"c","a","l","l"," ","m","e"," ","a","d","a"," ","l","o","v","e","l","a","c","e">>,
     <<"m","y"," ","n","a","m","e"," ","i","s"," ","c","a","l","l"," ","m","e"," ","b","o","b">>,
     <<"w","h","a","t"," ","i","s"," ","m","y"," ","n","a","m","e">>,
     <<"d","e","f","i","n","e"," "," ">>,
     <<"t","i","m","e"," ","i","n"," ","p","a","r","i","s">>,
     <<"s","e","a","r","c","h"," ","f","o","r"," ","n","e","w","s">>,
     <<"o","p","e","n"," ","t","h","e"," ","w","e","a","t","h","e","r"," ","s","i","t","e">>,
     <<"o","p","e","n"," ","n","o","t","e","p","a","d">>,
     <<"o","p","e","n"," ","c","h","r","o","m","e">>,
     <<"o","p","e","n"," ","s","i","t","e",".","c","o","m">>,
     <<"o","p","e","n"," ","h","t","t","p",":","/","/","s","i","t","e",".","c","o","m">>,
     <<"o","p","e","n"," ","y","o","u","t","u","b","e">>,
     <<"p","l","e","a","s","e"," ","o","p","e","n">>}

Utterances ==
    {Join(ps) : ps \in UNION {[1..n -> Phrases] : n \in 1..MaxPhrases}}
        \cup Examples

(***************************************************************************)
(* State.                                                                  *)
(***************************************************************************)
\* the keys as the source defaults them (delta.py:30-33)
\* the module constants read from the environment at import: a variable
\* is "unset", "empty" or "set"; the two API keys fall back to the keys
\* written in os.environ.get's default, the e-mail settings to ""
ReadConfig(env) ==
    [weather_key    |-> env.DELTA_WEATHER_API_KEY # "empty",
     news_key       |-> env.DELTA_NEWS_API_KEY # "empty",
     email_sender   |-> env.DELTA_EMAIL_SENDER = "set",
     email_password |-> env.DELTA_EMAIL_PASSWORD = "set",
     env            |-> env]

\* the configuration of a process started with none of the variables set
DefaultConfig ==
    ReadConfig([DELTA_WEATHER_API_KEY |-> "unset", DELTA_NEWS_API_KEY |-> "unset",
                DELTA_EMAIL_SENDER |-> "unset", DELTA_EMAIL_PASSWORD |-> "unset"])

NoReply == [branch |-> "none", raised |-> FALSE, said |-> <<>>,
            returned |-> EmptyText, calls |-> <<>>, started |-> <<>>,
            outcome |-> "none"]

NoHist == [set |-> None, saved |-> FALSE, restarted |-> FALSE]

NoExpr == [node |-> "none"]
NoResult == [kind |-> "none"]

(***************************************************************************)
(* Routing of one utterance: process_command applied to every utterance    *)
(* in a freshly started process with no memory file.                       *)
(***************************************************************************)
InitRoute ==
    /\ utterance \in Utterances
    /\ storage = NoFile
    /\ memory = _load_memory(storage)
    /\ config = DefaultConfig
    /\ reply = NoReply
    /\ hist = NoHist
    /\ expr = NoExpr
    /\ result = NoResult
    /\ NoRuntime

\* the call returns: its effects become the state
Commit(r) ==
    /\ reply' = r.reply
    /\ memory' = r.memory
    /\ storage' = r.storage

Route ==
    /\ reply = NoReply
    /\ \E o \in Outcomes(utterance, memory, config) :
          Commit(process_command(utterance, memory, storage, config, o))
    /\ UNCHANGED <<utterance, config, hist, expr, result, runtime>>

NextRoute == Route

SpecRoute == InitRoute /\ [][NextRoute]_vars


(***************************************************************************)
(* A session: the process starts with whatever MEMORY_FILE holds, routes   *)
(* utterances one at a time, and may be restarted.                         *)
(***************************************************************************)
\* what MEMORY_FILE can hold when the process starts
InitialFiles ==
    {NoFile, Unreadable, Garbage,
     JsonFile("object", <<>>),
     JsonFile("object", [name |-> <<"E","v","e">>]),
     JsonFile("object", [color |-> <<"r","e","d">>]),
     JsonFile("array", <<>>),
     JsonFile("string", <<>>),
     JsonFile("number", <<>>),
     JsonFile("null", <<>>)}

Configs ==
    {DefaultConfig,
     ReadConfig([DELTA_WEATHER_API_KEY |-> "empty", DELTA_NEWS_API_KEY |-> "empty",
                 DELTA_EMAIL_SENDER |-> "set", DELTA_EMAIL_PASSWORD |-> "empty"]),
     ReadConfig([DELTA_WEATHER_API_KEY |-> "set", DELTA_NEWS_API_KEY |-> "set",
                 DELTA_EMAIL_SENDER |-> "set", DELTA_EMAIL_PASSWORD |-> "set"])}

SessionUtterances ==
    {<<"c","a","l","l"," ","m","e"," ","a","d","a">>,
     <<"M","y"," ","n","a","m","e"," ","i","s"," ","B","o","b">>,
     <<"c","a","l","l"," ","m","e"," ","a","d","a"," ","l","o","v","e","l","a","c","e"," ">>,
     <<"m","y"," ","n","a","m","e"," ","i","s"," ","c","a","l","l"," ","m","e"," ","b","o","b">>,
     <<"w","h","a","t"," ","i","s"," ","m","y"," ","n","a","m","e">>,
     <<"m","y"," ","n","a","m","e">>,
     <<>>,
     <<"w","h","a","t"," ","i","s"," ","2"," ","+"," ","3">>,
     <<"w","e","a","t","h","e","r"," ","i","n"," ","p","a","r","i","s">>,
     <<"w","e","a","t","h","e","r">>,
     <<"n","e","w","s">>,
     <<"w","h","o"," ","a","r","e"," ","y","o","u">>}

\* module import: memory = _load_memory()  (delta.py:74)
Init ==
    /\ storage \in InitialFiles
    /\ memory = _load_memory(storage)
    /\ config \in Configs
    /\ utterance = <<>>
    /\ reply = NoReply
    /\ hist = NoHist
    /\ expr = NoExpr
    /\ result = NoResult
    /\ NoRuntime

\* the history after process_command(u) gave r: a completed name setting is
\* remembered with the outcome of its save
HistAfter(h, u, r) ==
    IF r.reply.branch = "name_setting" /\ ~r.reply.raised
    THEN [set |-> u, saved |-> r.reply.outcome = "saved",
          restarted |-> FALSE]
    ELSE h

\* process_command(u) returns (or raises) in the running process
Returned(u, r) ==
    /\ Commit(r)
    /\ utterance' = u
    /\ hist' = HistAfter(hist, u, r)

\* the console loop or the UI hands an utterance to process_command
Say ==
    /\ \E u \in SessionUtterances :
          \E o \in Outcomes(u, memory, config) :
              Returned(u, process_command(u, memory, storage, config, o))
    /\ UNCHANGED <<config, expr, result, runtime>>

\* the process ends and is started again with the same MEMORY_FILE
Restart ==
    /\ memory' = _load_memory(storage)
    /\ reply' = NoReply
    /\ utterance' = <<>>
    /\ hist' = [hist EXCEPT !.restarted = TRUE]
    /\ UNCHANGED <<storage, config, expr, result, runtime>>

\* the presentation layer calls send_email with a recipient it gathered
Email ==
    /\ \E o \in {O("sent"), O("failed")} :
          reply' = Finish("send_email", FALSE,
                          send_email(<<"a","@","b">>, config, o),
                          memory, storage, o).reply
    /\ UNCHANGED <<utterance, memory, storage, config, hist, expr, result,
                   runtime>>

Next == Say \/ Restart \/ Email

Spec == Init /\ [][Next]_vars

(***************************************************************************)
(* Evaluation of one expression: a math utterance is parsed and its tree   *)
(* evaluated, or a tree that ast.parse can produce is evaluated.           *)
(***************************************************************************)
MaxLit == 4
MaxIntNodes == 5
MaxNodes == 4
MaxArgs == 2
MaxKeywords == 1

\* the trees of exactly n nodes of a grammar g, and the sequences of at most
\* len trees with n nodes in all
RECURSIVE TreesOfSize(_, _)
RECURSIVE Forests(_, _, _)
Forests(g, n, len) ==
    IF n = 0 THEN {<<>>}
    ELSE IF len = 0 THEN {}
    ELSE UNION {{<<t>> \o f : t \in TreesOfSize(g, k),
                              f \in Forests(g, n - k, len - 1)}
                : k \in 1..n}

TreesOfSize(g, n) ==
    IF n = 1 THEN g.leaves
    ELSE {UnaryOp(o, t) : o \in g.unary, t \in TreesOfSize(g, n - 1)}
         \cup UNION {{BinOp(l, o, r) : o \in g.binary,
                                       l \in TreesOfSize(g, k),
                                       r \in TreesOfSize(g, n - 1 - k)}
                     : k \in 1..(n - 2)}
         \cup UNION {{Call(f, a, kw) : f \in g.funcs,
                                       a \in Forests(g, k, MaxArgs),
                                       kw \in Forests(g, n - 2 - k, MaxKeywords)}
                     : k \in 0..(n - 2)}

\* integer arithmetic: literals 0..MaxLit under + - * // % and unary minus
IntGrammar ==
    [leaves |-> {Constant("int", n) : n \in 0..MaxLit},
     unary  |-> {"USub"},
     binary |-> {"Add", "Sub", "Mult", "FloorDiv", "Mod"},
     funcs  |-> {}]

\* expressions in general: 0, 2, 0.5, True, 'a', sqrt, log, pi, foo, [],
\* under - and not, + / ** ^, and calls of sqrt, log, pi, foo and 2
AnyGrammar ==
    [leaves |-> {Constant("int", 0), Constant("int", 2), Constant("float", 0),
                 Constant("bool", 1), Constant("str", 0),
                 Name("sqrt"), Name("log"), Name("pi"), Name("foo"),
                 OtherNode("List")},
     unary  |-> {"USub", "Not"},
     binary |-> {"Add", "Div", "Pow", "BitXor"},
     funcs  |-> {Name("sqrt"), Name("log"), Name("pi"), Name("foo"),
                 Constant("int", 2)}]

\* expr is a tree of n nodes of the grammar g
IsTree(g, n) ==
    \/ n = 1 /\ expr \in g.leaves
    \/ n > 1 /\ \E o \in g.unary, t \in TreesOfSize(g, n - 1) :
                    expr = UnaryOp(o, t)
    \/ \E k \in 1..(n - 2) :
           \E o \in g.binary, l \in TreesOfSize(g, k),
              r \in TreesOfSize(g, n - 1 - k) :
               expr = BinOp(l, o, r)
    \/ \E k \in 0..(n - 2) :
           \E f \in g.funcs, a \in Forests(g, k, MaxArgs),
              kw \in Forests(g, n - 2 - k, MaxKeywords) :
               expr = Call(f, a, kw)

MathPrefixes ==
    {<<>>, Str.what_is \o <<" ">>, Str.calculate \o <<" ">>}

BinarySymbols ==
    {<<"+">>, <<"-">>, <<"*">>, <<"/">>, <<"/", "/">>, <<"%">>, <<"*", "*">>,
     <<"^">>}

\* the utterances asking for a sym b
MathUtterances(a, sym, b) ==
    {p \o IntToStr(a) \o sp \o sym \o sp \o IntToStr(b)
     : p \in MathPrefixes, sp \in {<<>>, <<" ">>}}

EvalUtterances ==
    UNION {MathUtterances(a, sym, b)
           : a \in 0..MaxLit, sym \in BinarySymbols, b \in 0..MaxLit}

InitEval ==
    /\ storage = NoFile
    /\ memory = _load_memory(storage)
    /\ config = DefaultConfig
    /\ reply = NoReply
    /\ hist = NoHist
    /\ result = NoResult
    /\ NoRuntime
    /\ \/ utterance \in EvalUtterances /\ expr = NoExpr
       \/ utterance = <<>> /\ \E n \in 1..MaxIntNodes : IsTree(IntGrammar, n)
       \/ utterance = <<>> /\ \E n \in 1..MaxNodes : IsTree(AnyGrammar, n)

\* the math branch takes the expression out of the command and _safe_eval
\* parses it (delta.py:421, 143)
Parse ==
    /\ expr = NoExpr
    /\ Branch(utterance) = "math"
    /\ expr' = ast_parse(Expression(Normalize(utterance)))
    /\ UNCHANGED <<utterance, memory, storage, config, reply, hist, result,
                   runtime>>

\* _safe_eval evaluates the tree (delta.py:144-146)
Evaluate ==
    /\ expr # NoExpr
    /\ result = NoResult
    /\ \E x \in _safe_eval(expr) : result' = x
    /\ UNCHANGED <<utterance, memory, storage, config, reply, hist, expr,
                   runtime>>

NextEval == Parse \/ Evaluate

SpecEval == InitEval /\ [][NextEval]_vars

(***************************************************************************)
(* Vocalization: speak() and the _tts threads it starts (delta.py:54,      *)
(* 77-93).  Any number of callers (router, alarm and reminder threads,     *)
(* greeting) may be inside speak() at once.                                *)
(***************************************************************************)
MaxVoices == 3

\* a `with` statement that does not wait for the lock
_speak_lock_ignored(l) == TRUE

\* `with _speak_lock:` is entered when no thread holds the lock
_speak_lock_acquire(l) == l = 0

\* a lock that stays held when the block is left by an exception
_speak_lock_kept_on_error(l, exc) == IF exc THEN l ELSE 0

\* the `with` block is left, normally or (exc) by an exception
_speak_lock_release(l, exc) == 0

\* what speak(text) hands back to its caller
SpeakReply(text) ==
    [NoReply EXCEPT !.branch = "speak", !.said = speak(text).said,
                    !.returned = speak(text).ret]

\* the backend has been imported, nothing has been said and no thread runs
InitRuntime ==
    /\ NoRuntime
    /\ utterance = <<>>
    /\ storage = NoFile
    /\ memory = _load_memory(NoFile)
    /\ config = DefaultConfig
    /\ reply = NoReply
    /\ hist = NoHist
    /\ expr = NoExpr
    /\ result = NoResult

session == <<utterance, memory, storage, config, hist, expr, result>>

\* speak(text) up to Thread.start(), for the texts callers hand to it; a
\* falsy text returns "" at once; the started thread stands at
\* `with _speak_lock:` and speak has not returned yet
SpeakCall ==
    /\ Len(voices) < MaxVoices
    /\ \E text \in {Msg("Alarm ringing!"), Msg("Goodbye!"), EmptyText} :
          IF Falsy(text)
          THEN voices' = voices /\ reply' = SpeakReply(text)
          ELSE /\ voices' = Append(voices, [text |-> text, pc |-> "with",
                                            returned |-> FALSE])
               /\ reply' = reply
    /\ UNCHANGED <<session, speak_lock, clock, units, gui>>

\* `return text` of the speak call that started thread i
SpeakReturn(i) ==
    /\ ~voices[i].returned
    /\ voices' = [voices EXCEPT ![i].returned = TRUE]
    /\ reply' = SpeakReply(voices[i].text)
    /\ UNCHANGED <<session, speak_lock, clock, units, gui>>

\* one step of thread i in _tts: it enters the `with` block; _engine.say(t)
\* returns; _engine.runAndWait() returns, the utterance spoken; or either
\* call raises, the block is left and the exception is logged
_tts(i) ==
    /\ \/ /\ voices[i].pc = "with"
          /\ _speak_lock_acquire(speak_lock)
          /\ speak_lock' = i
          /\ voices' = [voices EXCEPT ![i].pc = "say"]
       \/ /\ voices[i].pc = "say"
          /\ speak_lock' = speak_lock
          /\ voices' = [voices EXCEPT ![i].pc = "runAndWait"]
       \/ /\ voices[i].pc = "runAndWait"
          /\ speak_lock' = _speak_lock_release(speak_lock, FALSE)
          /\ voices' = [voices EXCEPT ![i].pc = "done"]
       \/ /\ voices[i].pc \in {"say", "runAndWait"}
          /\ speak_lock' = _speak_lock_release(speak_lock, TRUE)
          /\ voices' = [voices EXCEPT ![i].pc = "failed"]
    /\ UNCHANGED <<session, reply, clock, units, gui>>

\* process_command(u) returns r while the threads of earlier texts run:
\* every text its handler passed to speak has started a thread, in the
\* order of the calls, each speak having returned before the next call
Processed(u, r) ==
    /\ Len(r.reply.said) > 1
    /\ Len(voices) + Len(r.reply.said) <= MaxVoices
    /\ Commit(r)
    /\ utterance' = u
    /\ hist' = r
    /\ voices' = voices \o [k \in DOMAIN r.reply.said |->
                    [text |-> r.reply.said[k], pc |-> "with",
                     returned |-> TRUE]]

\* delta_process(command): one utterance is routed, once, for a handler
\* that passes more than one text to speak
delta_process ==
    /\ hist = NoHist
    /\ Len(voices) + 2 <= MaxVoices
    /\ \E u \in {<<"n","e","w","s">>,
                 <<"w","i","k","i","p","e","d","i","a"," ","a","d","a">>} :
          \E o \in Outcomes(u, memory, config) :
              Processed(u, process_command(u, memory, storage, config, o))
    /\ UNCHANGED <<config, expr, result, speak_lock, clock, units, gui>>

NextSpeak ==
    \/ SpeakCall
    \/ delta_process
    \/ \E i \in DOMAIN voices : SpeakReturn(i) \/ _tts(i)

SpecSpeak == InitRuntime /\ [][NextSpeak]_vars

(***************************************************************************)
(* Schedulers: the threads _alarm_thread and _rem (delta.py:304-333) and   *)
(* the wall clock they live by.  The clock is read only at the instants    *)
(* of Readings, which hold every valid alarm target of the utterances: a   *)
(* poll at any other instant reads a time that equals no target and        *)
(* changes nothing.  A thread that takes no step while the clock dwells    *)
(* on a reading has not polled in that minute.                             *)
(***************************************************************************)
MaxUnits == 2

\* 00:00, 07:29, 07:30, 07:31
Readings == {0, 449, 450, 451}

\* datetime.datetime.now().strftime("%H:%M")
strftime(c) == Fmt02d(c \div 60) \o <<":">> \o Fmt02d(c % 60)

\* the minute of the day that reads alarm_time (none when 24 * 60 or more)
MinuteOf(alarm_time) ==
    ParseInt(SubSeq(alarm_time, 1, 2)) * 60 + ParseInt(SubSeq(alarm_time, 4, 5))

\* a comparison of the hours alone
_alarm_due_in_hour(now, alarm_time) == SubSeq(now, 1, 2) = SubSeq(alarm_time, 1, 2)

\* a comparison that also takes a target left behind
_alarm_overdue(now, alarm_time) == MinuteOf(now) >= MinuteOf(alarm_time)

\* `if now == alarm_time:`
_alarm_due(now, alarm_time) == now = alarm_time

\* a sleep counted in seconds where minutes were meant
sleep_in_seconds(minutes, slept) == slept * 60 >= minutes

\* time.sleep(minutes * 60) returns once that much time has passed
sleep_over(minutes, slept) == slept >= minutes

\* threading.Thread(target=..., daemon=True).start() at clock c.  `said`
\* holds the texts the thread passed to speak and `at` what the clock read
\* when it passed its notification; `due`
\* tells where the target of an alarm lies: "today" (still to come, or now),
\* "passed" (left behind for this day) or "tomorrow" (left behind, and a
\* midnight has gone by since)
Unit(thread, c) ==
    [thread |-> thread, pc |-> "start", said |-> <<>>, at |-> None,
     slept |-> 0,
     due |-> IF thread[1] = "_alarm_thread" /\ MinuteOf(thread[2]) < c
             THEN "passed" ELSE "today"]

\* thread u after the clock went from c to c2 (through midnight when
\* c2 <= c): a sleeping reminder has slept that much longer, the target of
\* a running alarm may have been left behind
Elapse(u, c, c2) ==
    LET d    == IF c2 = c THEN 24 * 60 ELSE (c2 - c) % (24 * 60)
        wrap == c2 <= c
        T    == MinuteOf(u.thread[2])
        d1   == IF T < 24 * 60 /\ T >= c /\ (wrap \/ T < c2)
                THEN "passed" ELSE u.due
        d2   == IF wrap /\ d1 = "passed" THEN "tomorrow" ELSE d1
        d3   == IF wrap /\ T < c2 THEN "passed" ELSE d2
        N    == ParseInt(u.thread[2][1])
    IN  IF u.pc = "ended" THEN u
        ELSE IF u.thread[1] = "_alarm_thread" THEN [u EXCEPT !.due = d3]
        ELSE IF u.pc = "sleep"
        THEN [u EXCEPT !.slept = IF u.slept + d > N THEN N ELSE u.slept + d]
        ELSE u

\* thread i passes text to speak and goes on to pc; its last text is its
\* notification
Emit(i, text, pc) ==
    units' = [units EXCEPT
                 ![i].said = @ \o speak(text).said,
                 ![i].at = IF pc = "ended" THEN strftime(clock) ELSE @,
                 ![i].pc = pc]

\* the console loop or the window hands an utterance to process_command,
\* which starts the thread of its handler
Command ==
    /\ Len(units) < MaxUnits
    /\ \E u \in {<<"s","e","t"," ","a","l","a","r","m"," ","f","o","r"," ","7",":","3","0">>,
                 <<"s","e","t"," ","a","l","a","r","m"," ","f","o","r"," ","2","4",":","0","0">>,
                 <<"s","e","t"," ","a","l","a","r","m">>,
                 <<"r","e","m","i","n","d"," ","m","e"," ","t","o"," ","s","t","r","e","t","c","h"," ","i","n"," ","2"," ","m","i","n","u","t","e","s">>} :
          \E o \in Outcomes(u, memory, config) :
              LET r == process_command(u, memory, storage, config, o)
              IN  /\ Len(units) + Len(r.reply.started) <= MaxUnits
                  /\ Commit(r)
                  /\ utterance' = u
                  /\ units' = units \o [k \in DOMAIN r.reply.started |->
                                           Unit(r.reply.started[k], clock)]
    /\ UNCHANGED <<config, hist, expr, result, voices, speak_lock, clock, gui>>

\* time passes until the next reading
Tick ==
    /\ clock' = IF \E r \in Readings : r > clock
                THEN CHOOSE r \in Readings :
                         r > clock /\ \A q \in Readings : q > clock => r <= q
                ELSE CHOOSE r \in Readings : \A q \in Readings : r <= q
    /\ units' = [i \in DOMAIN units |-> Elapse(units[i], clock, clock')]
    /\ UNCHANGED <<session, reply, voices, speak_lock, gui>>

\* one step of thread i in _alarm_thread(alarm_time, "Alarm ringing"): the
\* announcement; a poll of the clock, which rings and ends the thread or
\* goes to sleep; the return of time.sleep(10)
_alarm_thread(i) ==
    /\ i \in DOMAIN units
    /\ units[i].thread[1] = "_alarm_thread"
    /\ \/ /\ units[i].pc = "start"
          /\ Emit(i, Fmt("Alarm set for {}.", units[i].thread[2]), "poll")
       \/ /\ units[i].pc = "poll"
          /\ _alarm_due(strftime(clock), units[i].thread[2])
          /\ Emit(i, Msg("Alarm ringing"), "ended")
       \/ /\ units[i].pc = "poll"
          /\ ~_alarm_due(strftime(clock), units[i].thread[2])
          /\ units' = [units EXCEPT ![i].pc = "sleep"]
       \/ /\ units[i].pc = "sleep"
          /\ units' = [units EXCEPT ![i].pc = "poll"]
    /\ UNCHANGED <<session, reply, voices, speak_lock, clock, gui>>

\* one step of thread i in _rem: the confirmation, then after
\* time.sleep(minutes * 60) the reminder
_rem(i) ==
    /\ i \in DOMAIN units
    /\ units[i].thread[1] = "_rem"
    /\ \/ /\ units[i].pc = "start"
          /\ Emit(i, Fmt("Reminder set for {} minutes from now.",
                         units[i].thread[2][1]), "sleep")
       \/ /\ units[i].pc = "sleep"
          /\ sleep_over(ParseInt(units[i].thread[2][1]), units[i].slept)
          /\ Emit(i, Fmt("Reminder: {}", units[i].thread[2][2]), "ended")
    /\ UNCHANGED <<session, reply, voices, speak_lock, clock, gui>>

NextUnits ==
    \/ Command
    \/ Tick
    \/ \E i \in 1..MaxUnits : _alarm_thread(i) \/ _rem(i)

SpecUnits == InitRuntime /\ [][NextUnits]_vars

\* the clock never stops and the operating system lets every thread run
SpecUnitsFair ==
    /\ SpecUnits
    /\ WF_vars(Tick)
    /\ \A i \in 1..MaxUnits : WF_vars(_alarm_thread(i) \/ _rem(i))

(***************************************************************************)
(* The window (delta_ui.py).  The Tk main loop runs the callbacks of       *)
(* `after` one at a time, the oldest first; the threads of `tasks` run     *)
(* beside it.  Lines that the window itself writes to the chat box         *)
(* (SYSTEM, You, ERROR) are left out of `chat`.                            *)
(***************************************************************************)
MaxTasks == 2

\* a callback waiting for the main loop, or a thread started by the window
Job(fn, arg) == [fn |-> fn, pc |-> "start", arg |-> arg]

\* a handler that never finds the window busy
never_reentrant(flag) == FALSE

\* `if self.listening: return`
reentrant(flag) == flag

\* a wrapper that displays the text and returns it without calling the
\* original speak
_ui_speak_wrapper_display_only(text) ==
    [line |-> <<text>>, said |-> <<>>, ret |-> text]

\* _ui_speak_wrapper(text): the line scheduled for the chat box, the thread
\* the original speak starts, and what it returns
_ui_speak_wrapper(text) ==
    [line |-> <<text>>, said |-> speak(text).said, ret |-> speak(text).ret]

\* the sequences of ss joined
RECURSIVE Flatten(_)
Flatten(ss) == IF ss = <<>> THEN <<>> ELSE Head(ss) \o Flatten(Tail(ss))

\* what process_command does when delta.speak is bound to sink s, given
\* what it does (r) when every text goes to speak: each text its handler
\* says goes through s, and `return speak(text)` returns what s returned
Through(s, r) ==
    [reply |->
        [r.reply EXCEPT
            !.said = Flatten([k \in DOMAIN r.reply.said |->
                         IF s = "_ui_speak_wrapper"
                         THEN _ui_speak_wrapper(r.reply.said[k]).said
                         ELSE speak(r.reply.said[k]).said]),
            !.returned =
                IF r.reply.said # <<>> /\ @ = r.reply.said[Len(r.reply.said)]
                THEN IF s = "_ui_speak_wrapper"
                     THEN _ui_speak_wrapper(@).ret
                     ELSE speak(@).ret
                ELSE @],
     lines |->
        Flatten([k \in DOMAIN r.reply.said |->
                    IF s = "_ui_speak_wrapper"
                    THEN _ui_speak_wrapper(r.reply.said[k]).line
                    ELSE <<>>])]

\* the user presses the mic button, or the passive listener's callback
\* recognizes a phrase with the wake word and schedules the activation
Activate ==
    /\ Len(tasks) + Cardinality({k \in DOMAIN after : after[k].fn
                       \in {"manual_listen", "_on_wake_detected"}}) < MaxTasks
    /\ \/ after' = Append(after, Job("manual_listen", <<>>))
       \/ \E phrase \in {<<"h","e","y"," ","d","e","l","t","a">>,
                         <<"d","e","l","t","a"," ","c","a","l","l"," ","m","e"," ","a","d","a">>} :
             after' = Append(after, Job("_on_wake_detected", phrase))
    /\ UNCHANGED <<session, reply, voices, speak_lock, clock, units,
                   listening, tasks, chat, sink>>

\* the main loop runs manual_listen: the test of the busy flag, and then
\* the setting of the flag and the start of the thread _task
manual_listen ==
    /\ after # <<>> /\ after[1].fn = "manual_listen"
    /\ \/ /\ after[1].pc = "start" /\ reentrant(listening)
          /\ after' = Tail(after)
          /\ UNCHANGED <<listening, tasks>>
       \/ /\ after[1].pc = "start" /\ ~reentrant(listening)
          /\ after' = [after EXCEPT ![1].pc = "set"]
          /\ UNCHANGED <<listening, tasks>>
       \/ /\ after[1].pc = "set"
          /\ listening' = TRUE
          /\ tasks' = Append(tasks, Job("_task", <<>>))
          /\ after' = Tail(after)
    /\ UNCHANGED <<session, reply, voices, speak_lock, clock, units, chat, sink>>

\* the main loop runs _on_wake_detected(phrase): the test of the busy flag,
\* and then the removal of the wake word, the setting of the flag and the
\* start of the thread _handle_activation
_on_wake_detected ==
    /\ after # <<>> /\ after[1].fn = "_on_wake_detected"
    /\ \/ /\ after[1].pc = "start" /\ reentrant(listening)
          /\ after' = Tail(after)
          /\ UNCHANGED <<listening, tasks>>
       \/ /\ after[1].pc = "start" /\ ~reentrant(listening)
          /\ after' = [after EXCEPT ![1].pc = "set"]
          /\ UNCHANGED <<listening, tasks>>
       \/ /\ after[1].pc = "set"
          /\ listening' = TRUE
          /\ tasks' = Append(tasks, Job("_handle_activation",
                 IF Contains(after[1].arg, <<"h","e","y"," ","d","e","l","t","a">>)
                 THEN Strip(Replace(after[1].arg,
                                    <<"h","e","y"," ","d","e","l","t","a">>, <<>>))
                 ELSE IF StartsWith(after[1].arg, <<"d","e","l","t","a">>)
                 THEN Strip(SubSeq(after[1].arg, 6, Len(after[1].arg)))
                 ELSE after[1].arg))
          /\ after' = Tail(after)
    /\ UNCHANGED <<session, reply, voices, speak_lock, clock, units, chat, sink>>

\* the main loop runs initialize_delta (scheduled by __init__), the
\* _reset_listen_ui scheduled by _task, or a _do of _insert_to_chat
mainloop ==
    /\ \/ /\ sink = "speak"
          /\ sink' = "_ui_speak_wrapper"
          /\ UNCHANGED <<listening, after, chat>>
       \/ /\ after # <<>> /\ after[1].fn = "_reset_listen_ui"
          /\ listening' = FALSE
          /\ after' = Tail(after)
          /\ UNCHANGED <<chat, sink>>
       \/ /\ after # <<>> /\ after[1].fn = "_do"
          /\ chat' = Append(chat, after[1].arg)
          /\ after' = Tail(after)
          /\ UNCHANGED <<listening, sink>>
    /\ UNCHANGED <<session, reply, voices, speak_lock, clock, units, tasks>>

\* delta.listen() returns what it recognized, "" when nothing
Listened(i) ==
    \E cmd \in {<<>>, <<"t","h","e"," ","t","i","m","e">>} :
        tasks' = [tasks EXCEPT ![i].arg = cmd,
                     ![i].pc = IF cmd = <<>> THEN "finally" ELSE "routing"]

\* delta.process_command(cmd) of thread i returns: r is what it does with
\* speak and t what that becomes through the sink in place
RoutedThrough(i, r, t) ==
    /\ Commit([r EXCEPT !.reply = t.reply])
    /\ utterance' = tasks[i].arg
    /\ hist' = [r EXCEPT !.reply.outcome = sink]
    /\ voices' = voices \o [k \in DOMAIN t.reply.said |->
                    [text |-> t.reply.said[k], pc |-> "with",
                     returned |-> TRUE]]
    /\ after' = after \o [k \in DOMAIN t.lines |-> Job("_do", t.lines[k])]
    /\ tasks' = [tasks EXCEPT ![i].pc = "finally"]

Routes(i) ==
    \E o \in Outcomes(tasks[i].arg, memory, config) :
        RoutedThrough(i, process_command(tasks[i].arg, memory, storage, config, o),
               Through(sink, process_command(tasks[i].arg, memory, storage,
                                             config, o)))

\* one step of thread i in manual_listen._task: listen, process_command,
\* and `finally` the scheduling of _reset_listen_ui on the main loop
_task(i) ==
    /\ tasks[i].fn = "_task"
    /\ \/ /\ tasks[i].pc = "start"
          /\ Listened(i)
          /\ UNCHANGED <<utterance, memory, storage, reply, hist, voices, after>>
       \/ /\ tasks[i].pc = "routing"
          /\ Routes(i)
       \/ /\ tasks[i].pc = "finally"
          /\ after' = Append(after, Job("_reset_listen_ui", <<>>))
          /\ tasks' = [tasks EXCEPT ![i].pc = "done"]
          /\ UNCHANGED <<utterance, memory, storage, reply, hist, voices>>
    /\ UNCHANGED <<config, expr, result, speak_lock, clock, units, listening,
                   chat, sink>>

\* one step of thread i in _on_wake_detected._handle_activation: the
\* command that came with the wake word or a follow-up listen,
\* process_command, and `finally` _reset_listen_ui called in this thread,
\* where the calls to Tk made outside the main loop's thread either
\* succeed or raise before the flag is cleared
_handle_activation(i) ==
    /\ tasks[i].fn = "_handle_activation"
    /\ \/ /\ tasks[i].pc = "start" /\ tasks[i].arg # <<>>
          /\ tasks' = [tasks EXCEPT ![i].pc = "routing"]
          /\ UNCHANGED <<utterance, memory, storage, reply, hist, voices,
                         after, listening>>
       \/ /\ tasks[i].pc = "start" /\ tasks[i].arg = <<>>
          /\ Listened(i)
          /\ UNCHANGED <<utterance, memory, storage, reply, hist, voices,
                         after, listening>>
       \/ /\ tasks[i].pc = "routing"
          /\ Routes(i)
          /\ UNCHANGED listening
       \/ /\ tasks[i].pc = "finally"
          /\ listening' \in {FALSE, listening}
          /\ tasks' = [tasks EXCEPT ![i].pc = "done"]
          /\ UNCHANGED <<utterance, memory, storage, reply, hist, voices, after>>
    /\ UNCHANGED <<config, expr, result, speak_lock, clock, units, chat, sink>>

NextUI ==
    \/ Activate
    \/ manual_listen
    \/ _on_wake_detected
    \/ mainloop
    \/ \E i \in DOMAIN tasks : _task(i) \/ _handle_activation(i)

SpecUI == InitRuntime /\ [][NextUI]_vars

(***************************************************************************)
(* Properties of the router.                                               *)
(***************************************************************************)
\* the utterance as the triggers see it: lower-cased and trimmed
Heard == Strip(Lower(utterance))

\* the branches in the order in which their triggers are to be tested
RuleOrder ==
    <<"name_setting", "tell_time", "tell_date", "search_wikipedia",
      "search_google", "open_app_or_website", "weather", "get_news", "email",
      "tell_joke", "identity", "my_name", "exit", "math", "set_alarm",
      "set_reminder", "definition", "play_youtube", "fallback">>

\* trigger k holds of the normalized utterance s
Trigger(k, s) ==
    CASE k = 1  -> StartsWith(s, Str.call_me) \/ StartsWith(s, Str.my_name_is)
      [] k = 2  -> Contains(s, Str.time) /\ ~StartsWith(s, Str.time_in)
      [] k = 3  -> Contains(s, Str.date)
      [] k = 4  -> Contains(s, Str.wikipedia)
      [] k = 5  -> StartsWith(s, Str.search_sp) \/ Contains(s, Str.google)
      [] k = 6  -> Contains(s, Str.open)
      [] k = 7  -> Contains(s, Str.weather)
      [] k = 8  -> Contains(s, Str.news)
      [] k = 9  -> Contains(s, Str.email)
      [] k = 10 -> Contains(s, Str.joke)
      [] k = 11 -> Contains(s, Str.your_name) \/ Contains(s, Str.who_are_you)
      [] k = 12 -> Contains(s, Str.my_name)
      [] k = 13 -> \E w \in {Str.exit, Str.stop, Str.quit, Str.goodbye} : Contains(s, w)
      [] k = 14 -> \/ Contains(s, Str.calculate)
                   \/ \E i \in 1..Len(s) : s[i] \in {"+", "-", "*", "/", "%", "^"}
                   \/ StartsWith(s, Str.what_is)
      [] k = 15 -> Contains(s, Str.alarm)
      [] k = 16 -> Contains(s, Str.remind_me)
      [] k = 17 -> StartsWith(s, Str.define_sp) \/ Contains(s, Str.definition_of)
      [] k = 18 -> Contains(s, Str.play) /\ Contains(s, Str.youtube)
      [] OTHER  -> TRUE

\* the texts the handler of rule k can return
Returns(k) ==
    CASE k = 1  -> {"Okay, I'll call you {}."}
      [] k = 2  -> {"The current time is {}"}
      [] k = 3  -> {"Today's date is {}"}
      [] k = 4  -> {"What should I search on Wikipedia?", "{}", "",
                    "Couldn't find information on Wikipedia."}
      [] k = 5  -> {"What should I search for?", "Searching Google for {}"}
      [] k = 6  -> {"Opening YouTube.", "Opening Google.", "Opening Notepad.",
                    "Unable to open Notepad.", "Opening Chrome.",
                    "Unable to open Chrome. Please check the path.",
                    "Opening {}", "I can't open that yet."}
      [] k = 7  -> {"Which city would you like the weather for?",
                    "Weather is not configured. Set DELTA_WEATHER_API_KEY to enable weather.",
                    "The weather in {} is {cond}, temperature {temp}C, humidity {hum}%, wind {wind} kph.",
                    "{}", "", "Couldn't fetch weather.", "Weather lookup failed."}
      [] k = 8  -> {"News is not configured. Set DELTA_NEWS_API_KEY to enable headlines.",
                    "No news found.", "\n.join(headlines)",
                    "Could not fetch news.", "News lookup failed."}
      [] k = 9  -> {"To send an email, please provide recipient, subject and message in the UI."}
      [] k = 10 -> {"{}"}
      [] k = 11 -> {"I am Delta, your personal AI assistant."}
      [] k = 12 -> {"Your name is {}."}
      [] k = 13 -> {"Goodbye. Shutting down."}
      [] k = 14 -> {"The result is {}", "I couldn't calculate that."}
      [] k = 15 -> {"Alarm set for {}",
                    "Please tell me the alarm time in HH:MM format."}
      [] k = 16 -> {"Reminder set for {} minutes from now.",
                    "Please say reminders like: remind me to buy milk in 10 minutes."}
      [] k = 17 -> {"{}", "", "I couldn't find a definition.",
                    "Definition lookup failed.", "Which word should I define?"}
      [] k = 18 -> {"Playing {} on YouTube.", "What should I play?"}
      [] OTHER  -> {"I didn't understand that. Say 'yes' to search the web."}

Routed == reply.branch # "none"

\* C1: for every non-empty utterance the branch that ran is the one of the
\* first trigger, in the documented order, that holds of the normalized
\* utterance (no earlier trigger holds), and what it returned is a text of
\* that branch's handler.
Thm_C1 ==
    (Routed /\ utterance # <<>>) =>
        \E k \in 1..19 :
            /\ RuleOrder[k] = reply.branch
            /\ Trigger(k, Heard)
            /\ \A j \in 1..(k - 1) : ~Trigger(j, Heard)
            /\ reply.returned[1] \in Returns(k)

\* an utterance on which two triggers hold was routed by the earlier one
Wit_C1 ==
    /\ Routed
    /\ \E k \in 1..17 : \E j \in (k + 1)..18 :
          /\ RuleOrder[k] = reply.branch
          /\ Trigger(k, Heard)
          /\ Trigger(j, Heard)

\* the utterance is empty or consists of whitespace only
Blank == \A i \in 1..Len(utterance) : utterance[i] \in {" ", "\t", "\n"}

\* C2: an empty or whitespace-only utterance gets the "didn't hear anything"
\* response and reaches no handler.
Orig_C2 ==
    (Routed /\ Blank) =>
        /\ reply.branch = "empty"
        /\ reply.returned =
             Msg("I didn't hear anything. Please say that again or type your command.")

\* the calls of the reply made to `callee`
CallsTo(callee) ==
    {i \in 1..Len(reply.calls) : reply.calls[i][1] = callee}

\* the letters and spaces that follow "weather in " at the first occurrence
\* of "weather" in s, trimmed; None when s does not continue that way
CityAfterWeatherIn(s) ==
    LET i == Find(s, Str.weather, 1)
        a == i + Len(Str.weather) + Len(Str.sp_in_sp)
    IN  IF i > 0 /\ MatchAt(s, Str.sp_in_sp, i + Len(Str.weather))
           /\ a <= Len(s) /\ IsAlpha(s[a])
        THEN Strip(SubSeq(s, a, a + RunLen(s, a, CityClass) - 1))
        ELSE None

\* the utterance starts with "what is", contains "weather", and no trigger
\* ranked before the weather rule holds of it
WhatIsWeather ==
    /\ StartsWith(Heard, Str.what_is)
    /\ Contains(Heard, Str.weather)
    /\ \A j \in 1..6 : ~Trigger(j, Heard)

\* C3: such an utterance is handled by the weather rule, which calls
\* get_weather with the words after "weather in" as city; the math branch
\* does not run and _safe_eval is not called.
Thm_C3 ==
    (Routed /\ WhatIsWeather) =>
        /\ reply.branch = "weather"
        /\ CallsTo("_safe_eval") = {}
        /\ CityAfterWeatherIn(Heard) # None =>
              \E i \in 1..Len(reply.calls) :
                  reply.calls[i] = <<"get_weather", CityAfterWeatherIn(Heard)>>

\* "what is the weather in paris" was routed: get_weather("paris")
Wit_C3 ==
    /\ Routed
    /\ WhatIsWeather
    /\ CityAfterWeatherIn(Heard) = <<"p","a","r","i","s">>
    /\ reply.branch = "weather"
    /\ CallsTo("get_weather") # {}

\* the city the weather rule captures: the words (letters and spaces,
\* trimmed) the pattern finds after "weather", " in" or " at"; empty when
\* there are none
CapturedCity(s) ==
    IF WeatherSearch(s) = None THEN <<>> ELSE Strip(WeatherSearch(s))

\* C4: in the weather rule, when no city is captured the clarification
\* request is emitted and the weather provider is not called; when a city
\* is captured the provider is called with exactly that city.
Orig_C4 ==
    (Routed /\ reply.branch = "weather" /\ config.weather_key) =>
        IF CapturedCity(Heard) = <<>>
        THEN /\ reply.returned = Msg("Which city would you like the weather for?")
             /\ CallsTo("weatherapi") = {}
        ELSE \E i \in 1..Len(reply.calls) :
                 reply.calls[i] = <<"weatherapi", CapturedCity(Heard)>>


(***************************************************************************)
(* Properties of the memory store.                                         *)
(***************************************************************************)
\* the text after the "call me " / "my name is " prefix of a name-setting
\* utterance u
GivenName(u) ==
    LET s == Strip(Lower(u))
    IN  IF StartsWith(s, Str.call_me) THEN SubSeq(s, Len(Str.call_me) + 1, Len(s))
        ELSE SubSeq(s, Len(Str.my_name_is) + 1, Len(s))

\* the given name contains neither name-setting phrase
PlainName(u) ==
    /\ ~Contains(GivenName(u) \o <<" ">>, Str.call_me)
    /\ ~Contains(GivenName(u) \o <<" ">>, Str.my_name_is)

\* the name as the router stores and speaks it: trimmed, first letter
\* upper-cased, the rest lower-cased
Stored(n) ==
    LET s == Strip(n)
    IN  [i \in 1..Len(s) |-> IF i = 1 THEN UpperChar(s[i]) ELSE LowerChar(s[i])]

\* GetUserName has just answered, some SetUserName having completed before
AnsweredAfterSet ==
    /\ reply.branch = "my_name"
    /\ hist.set # None
    /\ PlainName(hist.set)

ValidDocument == storage.k = "json" /\ storage.j = "object"

\* C6: load yields an empty record for every storage state that is not a
\* valid key/value document, and the record it returns can always be read by
\* GetUserName and written by SetUserName (neither raises).
Orig_C6 ==
    /\ (reply = NoReply /\ ~ValidDocument) => memory = EmptyDict
    /\ reply.branch \in {"my_name", "name_setting"} => ~reply.raised


(***************************************************************************)
(* Properties of the evaluator.                                            *)
(***************************************************************************)
Evaluated == expr # NoExpr /\ result # NoResult

\* the tree holds, anywhere, a literal that is not a number, an identifier
\* outside the allow-list, a call target that is not an allow-listed
\* function, or an operator outside the allowed set
RECURSIVE HasDisallowed(_)
HasDisallowed(t) ==
    CASE t.node = "Constant" -> t.type \notin {"int", "float", "bool"}
      [] t.node = "Name" -> t.id \notin SAFE_NAMES
      [] t.node = "UnaryOp" -> t.op # "USub" \/ HasDisallowed(t.operand)
      [] t.node = "BinOp" ->
             \/ t.op \notin {"Add", "Sub", "Mult", "Div", "FloorDiv", "Mod", "Pow"}
             \/ HasDisallowed(t.left)
             \/ HasDisallowed(t.right)
      [] t.node = "Call" ->
             \/ t.func.node # "Name"
             \/ t.func.id \notin SafeFunctions
             \/ \E i \in 1..Len(t.args) : HasDisallowed(t.args[i])
             \/ \E i \in 1..Len(t.keywords) : HasDisallowed(t.keywords[i])
      [] OTHER -> TRUE

\* C7: every expression tree that contains an identifier, call target,
\* operator or literal type outside the allowed set fails with an evaluation
\* error, and no function outside the allow-list is invoked.
Orig_C7 ==
    (Evaluated /\ HasDisallowed(expr)) =>
        /\ Raised(result)
        /\ result.invoked \subseteq SafeFunctions

\* C8: for every tree built from literals, allowed operators, allow-listed
\* function names and constant names, a successful result is a number.
Orig_C8 ==
    (Evaluated /\ ~HasDisallowed(expr) /\ ~Raised(result)) =>
        IsNumber(result.v)

\* C9: for numeric operands a and b, evaluating 'a ^ b' succeeds and returns
\* a raised to the power b.
Orig_C9 ==
    \A a \in 0..MaxLit, b \in 0..MaxLit :
        (Evaluated /\ utterance \in MathUtterances(a, <<"^">>, b)) =>
            result.v = PyInt(IntPow(a, b))

\* the tree is built from integer literals, + - * // % and unary minus
RECURSIVE IsIntTree(_)
IsIntTree(t) ==
    CASE t.node = "Constant" -> t.type = "int"
      [] t.node = "UnaryOp" -> t.op = "USub" /\ IsIntTree(t.operand)
      [] t.node = "BinOp" ->
             /\ t.op \in {"Add", "Sub", "Mult", "FloorDiv", "Mod"}
             /\ IsIntTree(t.left)
             /\ IsIntTree(t.right)
      [] OTHER -> FALSE

\* the floor of a / b, b # 0: the integer q with q <= a/b < q + 1
FloorQuotient(a, b) ==
    CHOOSE q \in (-Abs(a) - 1)..(Abs(a) + 1) :
        IF b > 0 THEN q * b <= a /\ a < (q + 1) * b
        ELSE q * b >= a /\ a > (q + 1) * b

\* the integer an integer tree denotes
RECURSIVE Denotes(_)
Denotes(t) ==
    CASE t.node = "Constant" -> t.value
      [] t.node = "UnaryOp" -> 0 - Denotes(t.operand)
      [] t.op = "Add"  -> Denotes(t.left) + Denotes(t.right)
      [] t.op = "Sub"  -> Denotes(t.left) - Denotes(t.right)
      [] t.op = "Mult" -> Denotes(t.left) * Denotes(t.right)
      [] t.op = "FloorDiv" -> FloorQuotient(Denotes(t.left), Denotes(t.right))
      [] t.op = "Mod"  ->
             Denotes(t.left)
             - Denotes(t.right) * FloorQuotient(Denotes(t.left), Denotes(t.right))

\* no floor division or modulo of the tree has a divisor that denotes zero
RECURSIVE NonzeroDivisors(_)
NonzeroDivisors(t) ==
    CASE t.node = "Constant" -> TRUE
      [] t.node = "UnaryOp" -> NonzeroDivisors(t.operand)
      [] OTHER ->
             /\ NonzeroDivisors(t.left)
             /\ NonzeroDivisors(t.right)
             /\ (t.op \in {"FloorDiv", "Mod"} => Denotes(t.right) # 0)

\* C10: for every tree over integer literals built from add, subtract,
\* multiply, floor division, modulo and unary negation, with nonzero
\* divisors, evaluate returns the integer the tree denotes (so that
\* a = b*(a//b) + a%b), calling no function.
Thm_C10 ==
    (Evaluated /\ utterance = <<>> /\ IsIntTree(expr) /\ NonzeroDivisors(expr)) =>
        result = Out(PyInt(Denotes(expr)), {})

\* 2 + 3 * 4 has been evaluated to 14
Wit_C10 ==
    /\ expr = BinOp(Constant("int", 2), "Add",
                    BinOp(Constant("int", 3), "Mult", Constant("int", 4)))
    /\ result = Out(PyInt(14), {})

(***************************************************************************)
(* Properties of fault handling.                                           *)
(***************************************************************************)
\* a call of process_command has ended
Called == reply # NoReply

\* C11: process_command never propagates a fault to its caller: for every
\* utterance and every outcome of the evaluator, of memory load and save and
\* of every external lookup it returns a user-facing message, and a failing
\* Calculate returns the apology message.
Orig_C11 ==
    Called =>
        /\ ~reply.raised
        /\ (reply.branch = "math" /\ reply.outcome = "error") =>
               reply.returned = Msg("I couldn't calculate that.")

(***************************************************************************)
(* Properties of vocalization.                                             *)
(***************************************************************************)
\* the threads inside _engine.say / _engine.runAndWait
Speaking == {i \in DOMAIN voices : voices[i].pc \in {"say", "runAndWait"}}

\* C12: vocalization is serialized: whatever the number of speak calls in
\* progress, at most one _tts thread is inside the engine (say or
\* runAndWait) in any reachable state
Thm_C12 == Cardinality(Speaking) <= 1

\* one thread is speaking while another stands at the lock with its text
Wit_C12 ==
    \E i, j \in DOMAIN voices :
        /\ voices[i].pc = "runAndWait"
        /\ voices[j].pc = "with"
        /\ \E k \in DOMAIN voices : voices[k].pc = "done"

\* C13: the caller of speak is isolated from vocalization: a speak call
\* that has started its thread can return at once, whoever holds the lock;
\* no failure of the engine reaches a caller; a thread that failed does not
\* hold the lock, which is held by exactly the thread inside the engine, so
\* that a waiting thread can enter whenever no thread is speaking
Thm_C13 ==
    /\ \A i \in DOMAIN voices : ~voices[i].returned => ENABLED SpeakReturn(i)
    /\ ~reply.raised
    /\ \A i \in DOMAIN voices :
          speak_lock = i <=> voices[i].pc \in {"say", "runAndWait"}
    /\ \A i \in DOMAIN voices :
          (voices[i].pc = "with" /\ Speaking = {}) => ENABLED _tts(i)

\* after one thread failed a later one is speaking, and a speak call has
\* returned its text while its thread still waits for the lock
Wit_C13 ==
    \E i, j, k \in DOMAIN voices :
        /\ voices[i].pc = "failed"
        /\ i < j /\ voices[j].pc = "runAndWait"
        /\ voices[k].pc = "with" /\ voices[k].returned
        /\ reply = SpeakReply(voices[k].text)

(***************************************************************************)
(* Properties of configuration.                                            *)
(***************************************************************************)
\* the variable was not given a value in the environment of the process
Absent(variable) == config.env[variable] # "set"

\* C18: a disabled feature performs no network call: with the weather key
\* absent every call of get_weather returns the configuration-missing
\* message and sends no request to the weather provider; likewise get_news
\* without the news key and send_email without both sender credentials
Orig_C18 ==
    /\ (Absent("DELTA_WEATHER_API_KEY") /\ CallsTo("get_weather") # {}) =>
          /\ reply.returned = Msg("Weather is not configured. Set DELTA_WEATHER_API_KEY to enable weather.")
          /\ CallsTo("weatherapi") = {}
    /\ (Absent("DELTA_NEWS_API_KEY") /\ reply.branch = "get_news") =>
          /\ reply.returned = Msg("News is not configured. Set DELTA_NEWS_API_KEY to enable headlines.")
          /\ CallsTo("newsapi") = {}
    /\ (reply.branch = "send_email"
            /\ (Absent("DELTA_EMAIL_SENDER") \/ Absent("DELTA_EMAIL_PASSWORD"))) =>
          /\ reply.returned = Msg("Email not configured. Set DELTA_EMAIL_SENDER and DELTA_EMAIL_PASSWORD to enable sending.")
          /\ CallsTo("smtp") = {}

(***************************************************************************)
(* Properties of the schedulers.                                           *)
(***************************************************************************)
\* the places in what thread u said where it said text
Said(u, text) == {k \in DOMAIN u.said : u.said[k] = text}

Alarms == {i \in DOMAIN units : units[i].thread[1] = "_alarm_thread"}

Reminders == {i \in DOMAIN units : units[i].thread[1] = "_rem"}

\* C15: an alarm thread for target HH:MM announces the alarm first and
\* rings at most once; it rings only at a poll that reads HH:MM on the
\* clock, and it has ended exactly when it has rung, so that nothing is
\* emitted at another time or after the ring
Thm_C15 ==
    \A i \in Alarms :
        LET u     == units[i]
            rings == Said(u, Msg("Alarm ringing"))
        IN  /\ Cardinality(rings) <= 1
            /\ rings # {} => u.at = u.thread[2]
            /\ u.pc = "ended" <=> rings # {}
            /\ u.pc # "start" =>
                   u.said[1] = Fmt("Alarm set for {}.", u.thread[2])
            /\ Len(u.said) = Cardinality(rings) + (IF u.pc = "start" THEN 0 ELSE 1)

\* an alarm for 07:30 has polled at another time, gone to sleep, and rung
\* at 07:30 while a second thread is still pending
Wit_C15 ==
    \E i \in Alarms : \E j \in DOMAIN units :
        /\ units[i].pc = "ended"
        /\ units[i].said[2] = Msg("Alarm ringing")
        /\ units[i].at = <<"0","7",":","3","0">>
        /\ units[i].due = "today"
        /\ units[j].pc = "sleep"

\* every reminder delivers at most once, only after its delay has elapsed
Once16 ==
    \A i \in Reminders :
        LET u     == units[i]
            notes == Said(u, Fmt("Reminder: {}", u.thread[2][2]))
        IN  /\ Cardinality(notes) <= 1
            /\ notes # {} => u.slept >= ParseInt(u.thread[2][1])
            /\ u.pc = "ended" <=> notes # {}
            /\ Len(u.said) = Cardinality(notes) + (IF u.pc = "start" THEN 0 ELSE 1)

\* C16: a reminder thread for 'remind me to A in N minutes' says
\* 'Reminder: A' at most once and only after N minutes have elapsed since
\* it went to sleep, and, while the process keeps running, eventually says
\* it, whatever the other pending alarms and reminders do
Thm_C16 ==
    /\ []Once16
    /\ \A i \in 1..MaxUnits :
          (i \in Reminders) ~> (i \in Reminders /\ units[i].pc = "ended")

\* a reminder has been delivered after its two minutes while an alarm
\* started before it is still polling
Wit_C16 ==
    \E i \in Reminders : \E j \in Alarms :
        /\ j < i
        /\ units[i].pc = "ended" /\ units[i].slept = 2
        /\ units[j].pc \in {"poll", "sleep"}

\* C19 as stated: an alarm whose target had passed when it was scheduled,
\* or was left behind without a poll reading it, never rings in the rest of
\* the run
Orig_C19 ==
    \A i \in Alarms :
        units[i].due # "today" => Said(units[i], Msg("Alarm ringing")) = {}

\* C19: an alarm whose target had passed when it was scheduled, or was left
\* behind without a poll reading it, does not ring before the next
\* midnight; the thread keeps polling and rings when a poll reads the
\* target on a later day
Thm_C19 ==
    \A i \in Alarms :
        units[i].due = "passed" => Said(units[i], Msg("Alarm ringing")) = {}

\* an alarm whose target was left behind has polled again and has not rung
Wit_C19 ==
    \E i \in Alarms :
        /\ units[i].due = "passed"
        /\ units[i].pc = "sleep"
        /\ strftime(clock) = <<"0","7",":","3","1">>

(***************************************************************************)
(* Properties of the window.                                               *)
(***************************************************************************)
\* the threads of the window that are inside process_command
Routing == {i \in DOMAIN tasks : tasks[i].pc = "routing"}

\* C14: in the window at most one routing is in progress at any time:
\* whatever the order of mic-button presses, wake-word detections and
\* thread completions, at most one thread started by manual_listen or
\* _on_wake_detected is inside process_command, and the busy flag
\* `listening` is set for as long as such a thread has not finished
Thm_C14 ==
    /\ Cardinality(Routing) <= 1
    /\ Cardinality({i \in DOMAIN tasks : tasks[i].pc # "done"}) <= 1
    /\ \A i \in DOMAIN tasks : tasks[i].pc # "done" => listening

\* a thread started on a wake word is inside process_command while a press
\* of the mic button is the next callback of the main loop
Wit_C14 ==
    /\ \E i \in Routing : tasks[i].fn = "_handle_activation"
    /\ after # <<>> /\ after[1].fn = "manual_listen"

\* the texts that have been handed to the original speak, and the lines in
\* the chat box or scheduled for it, in order
Vocalized == [k \in DOMAIN voices |-> voices[k].text]

Transcript ==
    LET lines == {k \in DOMAIN after : after[k].fn = "_do"}
    IN  chat \o [j \in 1..Cardinality(lines) |->
                    after[CHOOSE k \in lines :
                              Cardinality({m \in lines : m <= k}) = j].arg]

\* s ends with t
EndsWith(s, t) ==
    Len(t) <= Len(s) /\ SubSeq(s, Len(s) - Len(t) + 1, Len(s)) = t

AtRest ==
    /\ after = <<>>
    /\ \A i \in DOMAIN tasks : tasks[i].pc = "done"

\* C21: the busy flag is always cleared again: after every manual_listen or
\* wake activation, whether listening returned nothing, routing succeeded
\* or routing raised, once listen and the handler have returned and the
\* main loop has run what was scheduled, `listening` is false, so that a
\* later activation is not locked out
Orig_C21 == AtRest => ~listening

(***************************************************************************)
(* Targets of the alarms.                                                  *)
(***************************************************************************)
\* alarm_time is a reading of the clock: hour 00..23 and minute 00..59
Showable(alarm_time) ==
    /\ ParseInt(SubSeq(alarm_time, 1, 2)) < 24
    /\ ParseInt(SubSeq(alarm_time, 4, 5)) < 60

\* C22: every alarm unit that set_alarm starts eventually fires and
\* terminates while the clock advances through every minute of the day and
\* each minute is polled, because the target set_alarm hands to the unit is
\* always a time of day the clock can show
Orig_C22 == \A i \in Alarms : Showable(units[i].thread[2])

(***************************************************************************)
(* Reachability of the branches of the open handler.                       *)
(***************************************************************************)
\* the branches of open_app_or_website, each by the formats of the texts
\* with which it returns
OpenRules ==
    [youtube |-> {"Opening YouTube."},
     google  |-> {"Opening Google."},
     notepad |-> {"Opening Notepad.", "Unable to open Notepad."},
     chrome  |-> {"Opening Chrome.", "Unable to open Chrome. Please check the path."},
     generic |-> {"Opening {}"}]

\* process_command hands utterance u to open_app_or_website, which returns
\* from the branch `rule`
Selects(u, rule) ==
    /\ Branch(u) = "open_app_or_website"
    /\ \E o \in Outcomes(u, memory, config) :
          process_command(u, memory, storage, config, o).reply.returned[1]
              \in OpenRules[rule]

\* C23: every branch of the open handler is reachable through the router:
\* for each named target (youtube, google, notepad, chrome) and for the
\* generic 'open <target>' rule there is an utterance that process_command
\* hands to open_app_or_website and that selects that branch
Orig_C23 == \A rule \in DOMAIN OpenRules : \E u \in Utterances : Selects(u, rule)

(***************************************************************************)
(* What process_command returns and what it says.                          *)
(***************************************************************************)
\* the last text the call passed on for vocalization
LastSaid == reply.said[Len(reply.said)]

\* C24 as stated: for every utterance the text process_command returns is
\* the last text it passed to the sink during the call, so that what the
\* caller displays is what is spoken
Orig_C24 == Routed => (reply.said # <<>> /\ reply.returned = LastSaid)

\* the provider answered with an empty text (or none), which speak does
\* not vocalize and for which it returns ""
EmptyProvided == reply.outcome \in {"found_empty", "found_none", "error_empty"}

\* C24: whenever process_command returns, the text it returns is the last
\* text it passed to the sink, or "" when that text was empty or None and
\* nothing was vocalized for it, except in two branches: the fallback says
\* "... Should I search the web for it?" and returns "... Say 'yes' to
\* search the web.", and the news branch with at least one article says
\* the header and each headline and returns the headlines joined by
\* newlines
Thm_C24 ==
    (Routed /\ ~reply.raised) =>
        IF reply.branch = "fallback"
        THEN /\ reply.said = <<Msg("I didn't understand that. Should I search the web for it?")>>
             /\ reply.returned = Msg("I didn't understand that. Say 'yes' to search the web.")
        ELSE IF reply.branch = "get_news" /\ Len(reply.said) > 1
        THEN /\ reply.said[1] = Msg("Here are the top headlines:")
             /\ reply.returned = <<"\n.join(headlines)", Tail(reply.said)>>
        ELSE \/ reply.said # <<>> /\ reply.returned = LastSaid
             \/ EmptyProvided /\ reply.returned = EmptyText

\* the encyclopedia branch has said "Searching Wikipedia..." and then the
\* summary, and returned the summary
Wit_C24 ==
    /\ reply.branch = "search_wikipedia"
    /\ Len(reply.said) = 2
    /\ reply.said[1] = Msg("Searching Wikipedia...")
    /\ reply.returned = reply.said[2]

(***************************************************************************)
(* Order of vocalization.                                                  *)
(***************************************************************************)
\* the threads of the texts that the routed utterance's handler passed to
\* speak; they stand in `voices` in the order of the calls
Emitted ==
    IF hist = NoHist THEN {}
    ELSE {i \in DOMAIN voices :
             \E k \in DOMAIN hist.reply.said : voices[i].text = hist.reply.said[k]}

\* C25: the texts that one handler invocation emits in sequence (the news
\* header and then the headlines, "Searching Wikipedia..." and then the
\* summary) are vocalized in the order in which they were emitted, for
\* every interleaving of the vocalization threads: no text is handed to the
\* engine while a text emitted before it by the same invocation still
\* waits for the engine
Orig_C25 ==
    \A i \in Emitted : \A j \in Emitted :
        (i < j /\ voices[j].pc # "with") => voices[i].pc # "with"

(***************************************************************************)
(* Scheduling confirmations.                                               *)
(***************************************************************************)
\* the places in `said` that hold a scheduling confirmation
Confirmations(said) ==
    {k \in DOMAIN said :
        said[k][1] \in {"Alarm set for {}", "Alarm set for {}.",
                        "Reminder set for {} minutes from now."}}

\* the last request was for an alarm or a reminder
Requested == reply.branch \in {"set_alarm", "set_reminder"}

\* the last request was turned down: no HH:MM found, or the reminder
\* pattern did not match
Rejected ==
    reply.returned \in
        {Msg("Please tell me the alarm time in HH:MM format."),
         Msg("Please say reminders like: remind me to buy milk in 10 minutes.")}

\* C26: each accepted alarm or reminder request emits its scheduling
\* confirmation to the sink exactly once, counting what its handler and the
\* unit it started (the last of `units`) have said, and a rejected request
\* starts no background unit
Orig_C26 ==
    /\ (Requested /\ ~Rejected) =>
          /\ reply.started # <<>>
          /\ Cardinality(Confirmations(reply.said))
               + Cardinality(Confirmations(units[Len(units)].said)) = 1
    /\ (Requested /\ Rejected) => reply.started = <<>>

=============================================================================
